---- MODULE Spec2Model ----
(***************************************************************************)
(* Storage core of the TAE table engine: the column store of one block     *)
(* (segmentio.columnBlock), the segment store and its replay               *)
(* (segmentio.segmentFile), the block index builder                        *)
(* (jobs.BuildAndFlushBlockIndex) and the sealed-block index               *)
(* (indexwrapper.immutableIndex).                                          *)
(*                                                                         *)
(* The specifications below share the definitions of the operations:       *)
(*   SpecCol      one column store and the calls of its interface;         *)
(*   SpecSeg      a segment written block by block, restarted, replayed;   *)
(*   SpecRaw      SpecSeg over a raw store holding names of other origin;  *)
(*   SpecNames    replay of names generated for 64-bit block ids;          *)
(*   SpecRelease  SpecSeg ended by the destruction of a column store;      *)
(*   SpecIdx      a sealed block: index build, ReadFrom, Dedup,            *)
(*                BatchDedup, the unsupported calls, Destroy;              *)
(*   SpecPairs    Ref / Unref pairs issued by several threads;             *)
(*   SpecLife     the block map's calls, Ref, Unref, Close and Destroy;    *)
(*   SpecDestroy  segmentFile.Destroy against OpenBlock and RemoveBlock;   *)
(*   SpecWrite    columnBlock.WriteTS called by two threads.               *)
(***************************************************************************)
EXTENDS Integers, Sequences, FiniteSets, TLC

VARIABLES
    nodes,      \* raw segment store: the names of the files it holds
    cb,         \* SpecCol, SpecIdx: a column store (columnBlock)
    colRet,     \* SpecCol: the last call on cb and what it returned
    sf,         \* SpecSeg: the segment store (segmentFile)
    segRet,     \* SpecSeg: the last call on sf and what it returned
    pkData,     \* SpecIdx: the primary-key values of the sealed block
    indexMeta,  \* SpecIdx: the block's persisted index-metadata blob
    index,      \* SpecIdx: the immutableIndex (its two readers)
    idxPc,      \* SpecIdx: position of the seal / load / query pipeline
    idxRet,     \* SpecIdx: the last call and what it returned
    subject,    \* the reference-counted object in use
    threads,    \* each thread's position in the call it is making
    events      \* the lifecycle events so far, in order

vars == <<nodes, cb, colRet, sf, segRet, pkData, indexMeta, index, idxPc, idxRet,
          subject, threads, events>>

lifeVars == <<subject, threads, events>>

(***************************************************************************)
(* Bounds of the model.                                                    *)
(***************************************************************************)
MaxTS == 2          \* commit timestamps are 1..MaxTS
MaxFiles == 3       \* longest data-file sequence WriteTS extends a column to
MaxOpens == 2       \* most handles of one column store opened in SpecCol
NumBlocks == 2      \* block ids are 1..NumBlocks
ColCnt == 2         \* schema column count: column ordinals are 0..ColCnt-1
MaxNodes == 5       \* most files the raw store holds in SpecSeg
MaxKey == 2         \* primary-key values are 0..MaxKey
MaxBatch == 2       \* longest key vector given to BatchDedup
MaxForeign == 1     \* most names in the raw store that this layer did not write
MaxPairs == 4       \* most threads issuing a Ref / Unref pair in SpecPairs
MaxRefs == 2        \* largest reference count Ref raises an object to in SpecLife
MaxEvents == 3      \* most lifecycle events recorded in SpecLife
MaxNames == 2       \* most files the raw store holds in SpecNames

TS == 1..MaxTS
BlockIds == 1..NumBlocks
Cols == 0..(ColCnt - 1)
Bufs == {<<1>>}     \* the buffers written to index files
Keys == 0..MaxKey

\* The schema: the primary-key column ordinal and each column's declared
\* index-slot count (zone-map and bloom-filter on the primary key).
PrimaryKey == 0
SchemaIndexCnt == [c \in Cols |-> IF c = PrimaryKey THEN 2 ELSE 1]

Nil == "nil"

(***************************************************************************)
(* Errors.                                                                 *)
(***************************************************************************)
ErrInvalidParam == "file.ErrInvalidParam"

(***************************************************************************)
(* File names: fmt.Sprintf("%d_%d.blk", col, id) and                       *)
(* fmt.Sprintf("%d_%d_%d.blk", col, id, ts).  A name is the sequence of    *)
(* its characters.                                                         *)
(***************************************************************************)
DigitChars == <<"0", "1", "2", "3", "4", "5", "6", "7", "8", "9">>

RECURSIVE FormatUint(_)
FormatUint(n) ==
    IF n < 10 THEN <<DigitChars[n + 1]>>
    ELSE FormatUint(n \div 10) \o <<DigitChars[(n % 10) + 1]>>

BlkSuffix == <<".", "b", "l", "k">>

BaseFileName(col, id) ==
    FormatUint(col) \o <<"_">> \o FormatUint(id) \o BlkSuffix

VersionFileName(col, id, ts) ==
    FormatUint(col) \o <<"_">> \o FormatUint(id) \o <<"_">> \o FormatUint(ts) \o BlkSuffix

(***************************************************************************)
(* Block ids are uint64.  The numbers of the model checker stop below      *)
(* 2^31, so an id that may be larger is held as its four 16-bit limbs,     *)
(* most significant first, and formatted by repeated division by ten.      *)
(***************************************************************************)
Uint64(n) == <<0, 0, n \div 65536, n % 65536>>

\* Quotient and remainder of the limbs v, with carry in front, by ten.
RECURSIVE DivTen(_, _)
DivTen(v, carry) ==
    IF v = <<>> THEN [q |-> <<>>, r |-> carry]
    ELSE LET cur == carry * 65536 + Head(v)
             rest == DivTen(Tail(v), cur % 10)
         IN  [q |-> <<cur \div 10>> \o rest.q, r |-> rest.r]

\* fmt's %d of a uint64.
RECURSIVE FormatUint64(_)
FormatUint64(v) ==
    LET d == DivTen(v, 0)
    IN  IF \A i \in 1..Len(d.q) : d.q[i] = 0
        THEN <<DigitChars[d.r + 1]>>
        ELSE FormatUint64(d.q) \o <<DigitChars[d.r + 1]>>

\* The two names with the block id given as a uint64.
BaseFileName64(col, id) ==
    FormatUint(col) \o <<"_">> \o FormatUint64(id) \o BlkSuffix

VersionFileName64(col, id, ts) ==
    FormatUint(col) \o <<"_">> \o FormatUint64(id) \o <<"_">> \o FormatUint(ts) \o BlkSuffix

(***************************************************************************)
(* File handles of a column store.  A handle is named by its kind and, for *)
(* an index file, its slot.                                                *)
(***************************************************************************)
NilFile == [kind |-> "nil", slot |-> -1]
IndexFileOf(i) == [kind |-> "index", slot |-> i]
UpdatesFile == [kind |-> "updates", slot |-> -1]
DataFile == [kind |-> "data", slot |-> -1]

\* newIndex / newUpdates / newData: a fresh handle, referenced once, empty.
NewVFile == [ref |-> 1, content |-> <<>>]

\* common.RefHelper.Ref on a file handle.
VFileRef(f) == [f EXCEPT !.ref = @ + 1]

\* indexFile.Write: the buffer becomes the file's content.
VFileWrite(f, buf) == [f EXCEPT !.content = buf]

(***************************************************************************)
(* Column store.  indexes is 1-based here: slot i is indexes[i + 1].       *)
(* data.file is a Go slice: fileNil tells a nil slice from an empty one.   *)
(***************************************************************************)
newColumnBlock(block, indexCnt, col) ==
    [block   |-> block,
     col     |-> col,
     ts      |-> 0,
     ref     |-> 1,
     indexes |-> [i \in 1..indexCnt |-> NewVFile],
     updates |-> NewVFile,
     data    |-> NewVFile,
     stat    |-> <<>>,
     fileNil |-> FALSE,
     file    |-> <<BaseFileName(col, block)>>]

openColumnBlock(block, indexCnt, col) ==
    [block   |-> block,
     col     |-> col,
     ts      |-> 0,
     ref     |-> 1,
     indexes |-> [i \in 1..indexCnt |-> NewVFile],
     updates |-> NewVFile,
     data    |-> NewVFile,
     stat    |-> <<>>,
     fileNil |-> FALSE,
     file    |-> <<>>]

\* The result of a call on a column store: the store after the call, the
\* error, the value or handle returned, the reads and writes issued on the
\* store's files, and the files created in the raw store.
ColResult(c, err, out, vfile, io, created) ==
    [cb |-> c, err |-> err, out |-> out, vfile |-> vfile, io |-> io, created |-> created]

\* WriteTS storing the new version over the last entry.
WriteTSOverwrite(c, ts) ==
    LET c1 == [c EXCEPT !.ts = ts]
        name == VersionFileName(c1.col, c1.block, ts)
    IN  IF c1.file = <<>>
        THEN ColResult([c1 EXCEPT !.file = <<name>>], Nil, <<>>, NilFile, <<>>, {name})
        ELSE ColResult([c1 EXCEPT !.file[Len(c1.file)] = name],
                       Nil, <<>>, NilFile, <<>>, {name})

WriteTS(c, ts) ==
    LET c1 == [c EXCEPT !.ts = ts]
    IN  IF ~c1.fileNil
        THEN LET name == VersionFileName(c1.col, c1.block, ts)
             IN  ColResult([c1 EXCEPT !.file = Append(@, name)],
                           Nil, <<>>, NilFile, <<>>, {name})
        ELSE ColResult(c1, Nil, <<>>, NilFile, <<>>, {})

ReadTS(c) == c.ts

\* WriteIndex with the bound test off by one: slot = count indexes past the
\* array.
WriteIndexOffByOne(c, idx, buf) ==
    IF idx > Len(c.indexes)
    THEN ColResult(c, ErrInvalidParam, <<>>, NilFile, <<>>, {})
    ELSE IF idx = Len(c.indexes)
    THEN ColResult(c, "panic: index out of range", <<>>, NilFile, <<>>, {})
    ELSE ColResult([c EXCEPT !.indexes[idx + 1] = VFileWrite(@, buf)],
                   Nil, <<>>, NilFile,
                   <<[file |-> IndexFileOf(idx), op |-> "write"]>>, {})

WriteIndex(c, idx, buf) ==
    IF idx >= Len(c.indexes)
    THEN ColResult(c, ErrInvalidParam, <<>>, NilFile, <<>>, {})
    ELSE ColResult([c EXCEPT !.indexes[idx + 1] = VFileWrite(@, buf)],
                   Nil, <<>>, NilFile,
                   <<[file |-> IndexFileOf(idx), op |-> "write"]>>, {})

ReadIndex(c, idx) ==
    IF idx >= Len(c.indexes)
    THEN ColResult(c, ErrInvalidParam, <<>>, NilFile, <<>>, {})
    ELSE ColResult(c, Nil, c.indexes[idx + 1].content, NilFile,
                   <<[file |-> IndexFileOf(idx), op |-> "read"]>>, {})

OpenIndexFile(c, idx) ==
    IF idx >= Len(c.indexes)
    THEN ColResult(c, ErrInvalidParam, <<>>, NilFile, <<>>, {})
    ELSE ColResult([c EXCEPT !.indexes[idx + 1] = VFileRef(@)],
                   Nil, <<>>, IndexFileOf(idx), <<>>, {})

OpenUpdateFile(c) ==
    ColResult([c EXCEPT !.updates = VFileRef(@)], Nil, <<>>, DataFile, <<>>, {})

OpenDataFile(c) ==
    ColResult([c EXCEPT !.data = VFileRef(@)], Nil, <<>>, DataFile, <<>>, {})

(***************************************************************************)
(* strings.Split and strconv.ParseUint, as Replay uses them.               *)
(***************************************************************************)
\* The first position at which sep occurs in s, 0 when it does not occur.
IndexOfSub(s, sep) ==
    LET hits == {i \in 1..(Len(s) - Len(sep) + 1) : SubSeq(s, i, i + Len(sep) - 1) = sep}
    IN  IF hits = {} THEN 0 ELSE CHOOSE i \in hits : \A j \in hits : i <= j

RECURSIVE Split(_, _)
Split(s, sep) ==
    LET i == IndexOfSub(s, sep)
    IN  IF i = 0 THEN <<s>>
        ELSE <<SubSeq(s, 1, i - 1)>> \o Split(SubSeq(s, i + Len(sep), Len(s)), sep)

IsDigit(ch) == \E d \in 1..10 : DigitChars[d] = ch
DigitValue(ch) == (CHOOSE d \in 1..10 : DigitChars[d] = ch) - 1

RECURSIVE DigitsValue(_)
DigitsValue(s) ==
    IF s = <<>> THEN 0
    ELSE DigitsValue(SubSeq(s, 1, Len(s) - 1)) * 10 + DigitValue(s[Len(s)])

ErrSyntax == "strconv.ErrSyntax"
ErrRange == "strconv.ErrRange"

\* The largest value of bitSize bits, in decimal.
MaxUintDigits(bitSize) ==
    IF bitSize = 32
    THEN <<"4", "2", "9", "4", "9", "6", "7", "2", "9", "5">>
    ELSE <<"1", "8", "4", "4", "6", "7", "4", "4", "0", "7",
           "3", "7", "0", "9", "5", "5", "1", "6", "1", "5">>

RECURSIVE StripZeros(_)
StripZeros(s) ==
    IF Len(s) > 1 /\ Head(s) = "0" THEN StripZeros(Tail(s)) ELSE s

\* a > b for two decimal numerals without leading zeros.
DigitsGreater(a, b) ==
    \/ Len(a) > Len(b)
    \/ /\ Len(a) = Len(b)
       /\ \E i \in 1..Len(a) :
            /\ DigitValue(a[i]) > DigitValue(b[i])
            /\ \A j \in 1..(i - 1) : a[j] = b[j]

\* strconv.ParseUint(s, 10, bitSize).  The numbers of the model stay below
\* 2^31; the range check is made on the numeral itself.
ParseUint(s, bitSize) ==
    IF s = <<>> \/ \E i \in 1..Len(s) : ~IsDigit(s[i])
    THEN [val |-> 0, err |-> ErrSyntax]
    ELSE IF DigitsGreater(StripZeros(s), MaxUintDigits(bitSize))
         THEN [val |-> 0, err |-> ErrRange]
         ELSE [val |-> DigitsValue(s), err |-> Nil]

(***************************************************************************)
(* Block store: one column store per schema column, column c at            *)
(* columns[c + 1].                                                         *)
(***************************************************************************)
newBlock(id, colCnt, indexCnt) ==
    [id |-> id,
     columns |-> [i \in 1..colCnt |-> newColumnBlock(id, indexCnt[i - 1], i - 1)]]

replayBlock(id, colCnt, indexCnt) ==
    [id |-> id,
     columns |-> [i \in 1..colCnt |-> openColumnBlock(id, indexCnt[i - 1], i - 1)]]

\* The base files the column stores of a new block create in the raw store.
NewBlockFiles(id, colCnt) == {BaseFileName(i - 1, id) : i \in 1..colCnt}

(***************************************************************************)
(* Segment store.  blocks is the map block id -> block store; mounted and  *)
(* replayed tell a segment made by newSegmentFile from one opened by       *)
(* openSegment and not yet replayed.                                       *)
(***************************************************************************)
\* newSegmentFile without its call of sf.Ref().
newSegmentFileNoRef ==
    [blocks |-> <<>>, ts |-> 0, ref |-> 0, mounted |-> TRUE, replayed |-> TRUE]

newSegmentFile ==
    [blocks |-> <<>>, ts |-> 0, ref |-> 1, mounted |-> TRUE, replayed |-> TRUE]

openSegment ==
    [blocks |-> <<>>, ts |-> 0, ref |-> 1, mounted |-> FALSE, replayed |-> FALSE]

SegResult(s, err, created) == [sf |-> s, err |-> err, created |-> created]

\* OpenBlock making a new block store whether or not id is mapped.
OpenBlockAlwaysNew(s, id, colCnt, indexCnt) ==
    SegResult([s EXCEPT !.blocks = (id :> newBlock(id, colCnt, indexCnt)) @@ @],
              Nil, NewBlockFiles(id, colCnt))

OpenBlock(s, id, colCnt, indexCnt) ==
    IF id \in DOMAIN s.blocks
    THEN SegResult(s, Nil, {})
    ELSE SegResult([s EXCEPT !.blocks = (id :> newBlock(id, colCnt, indexCnt)) @@ @],
                   Nil, NewBlockFiles(id, colCnt))

\* RemoveBlock dropping every entry of the map.
RemoveBlockAll(s, id) ==
    IF id \notin DOMAIN s.blocks THEN s ELSE [s EXCEPT !.blocks = <<>>]

RemoveBlock(s, id) ==
    IF id \notin DOMAIN s.blocks
    THEN s
    ELSE [s EXCEPT !.blocks = [b \in (DOMAIN s.blocks) \ {id} |-> s.blocks[b]]]

ErrIndexOutOfRange == "panic: index out of range"

\* The loop body taking the timestamp of the node at hand, not the largest.
ReplayNodeLastTS(blocks, name, colCnt, indexCnt) ==
    LET fileName == Split(Split(name, BlkSuffix)[1], <<"_">>)
    IN  IF Len(fileName) < 2
        THEN [blocks |-> blocks, err |-> Nil]
        ELSE
        LET id == ParseUint(fileName[2], 32).val
            col == ParseUint(fileName[1], 32).val
            blocks1 == IF id \in DOMAIN blocks
                       THEN blocks
                       ELSE (id :> replayBlock(id, colCnt, indexCnt)) @@ blocks
            blocks2 == [blocks1 EXCEPT ![id].columns[col + 1].file = Append(@, name),
                                       ![id].columns[col + 1].stat = name]
        IN  IF Len(fileName) > 2
            THEN [blocks |-> [blocks2 EXCEPT ![id].columns[col + 1].ts =
                                               ParseUint(fileName[3], 64).val],
                  err |-> Nil]
            ELSE [blocks |-> blocks2, err |-> Nil]

\* One iteration of Replay's loop over the raw store's nodes: name is the
\* node's name, which also stands for its file handle.
ReplayNode(blocks, name, colCnt, indexCnt) ==
    LET tmpName == Split(name, BlkSuffix)
        fileName == Split(tmpName[1], <<"_">>)
    IN  IF Len(fileName) < 2
        THEN [blocks |-> blocks, err |-> Nil]
        ELSE
        LET id == ParseUint(fileName[2], 32)
        IN  IF id.err # Nil
            THEN [blocks |-> blocks, err |-> id.err]
            ELSE
            LET blocks1 == IF id.val \in DOMAIN blocks
                           THEN blocks
                           ELSE (id.val :> replayBlock(id.val, colCnt, indexCnt)) @@ blocks
                col == ParseUint(fileName[1], 32)
            IN  IF col.err # Nil
                THEN [blocks |-> blocks1, err |-> col.err]
                ELSE IF col.val >= colCnt
                THEN [blocks |-> blocks1, err |-> ErrIndexOutOfRange]
                ELSE
                LET blocks2 == [blocks1 EXCEPT
                                  ![id.val].columns[col.val + 1].file = Append(@, name),
                                  ![id.val].columns[col.val + 1].stat = name]
                IN  IF Len(fileName) > 2
                    THEN LET ts == ParseUint(fileName[3], 64)
                         IN  IF ts.err # Nil
                             THEN [blocks |-> blocks2, err |-> ts.err]
                             ELSE IF blocks2[id.val].columns[col.val + 1].ts < ts.val
                             THEN [blocks |-> [blocks2 EXCEPT
                                                 ![id.val].columns[col.val + 1].ts = ts.val],
                                   err |-> Nil]
                             ELSE [blocks |-> blocks2, err |-> Nil]
                    ELSE [blocks |-> blocks2, err |-> Nil]

RECURSIVE ReplayLoop(_, _, _, _)
ReplayLoop(blocks, order, colCnt, indexCnt) ==
    IF order = <<>>
    THEN [blocks |-> blocks, err |-> Nil]
    ELSE LET r == ReplayNode(blocks, Head(order), colCnt, indexCnt)
         IN  IF r.err # Nil THEN r
             ELSE ReplayLoop(r.blocks, Tail(order), colCnt, indexCnt)

\* Replay: segErr is what the raw segment's own Replay returns, order the
\* order in which the range over the nodes map yields the names.
Replay(s, colCnt, indexCnt, segErr, order) ==
    IF segErr # Nil
    THEN SegResult(s, segErr, {})
    ELSE LET r == ReplayLoop(s.blocks, order, colCnt, indexCnt)
         IN  SegResult([s EXCEPT !.blocks = r.blocks, !.replayed = TRUE], r.err, {})

\* WriteTS on column col of block id of the segment.
BlockWriteTS(s, id, col, ts) ==
    LET r == WriteTS(s.blocks[id].columns[col + 1], ts)
    IN  SegResult([s EXCEPT !.blocks[id].columns[col + 1] = r.cb], r.err, r.created)

\* Every order in which a range over a map with the keys S can yield them.
RECURSIVE Orders(_)
Orders(S) ==
    IF S = {} THEN {<<>>}
    ELSE UNION {{<<x>> \o p : p \in Orders(S \ {x})} : x \in S}

(***************************************************************************)
(* Reference counting (common.RefHelper) and teardown.  An event records   *)
(* what was done, to what, and the object's reference count at that time.  *)
(***************************************************************************)
Event(ev, arg, ref) == [ev |-> ev, arg |-> arg, ref |-> ref]

\* RefHelper.Ref: the atomic increment.
Ref(o) == [o EXCEPT !.ref = @ + 1]

\* RefHelper.Unref: the atomic decrement; zero tells the call that brought
\* the count to zero, the one that then calls OnZeroCB.
Unref(o) == [obj |-> [o EXCEPT !.ref = @ - 1], zero |-> o.ref - 1 = 0]

\* columnBlock.Destroy releasing the base file only.
ColumnBlockDestroyBaseOnly(c) ==
    [cb |-> c,
     events |-> IF c.fileNil \/ c.file = <<>> THEN <<>>
                ELSE <<Event("ReleaseFile", c.file[1], c.ref)>>]

\* columnBlock.Destroy: every file of the data-file sequence is released
\* to the raw store.
ColumnBlockDestroy(c) ==
    [cb |-> c,
     events |-> IF c.fileNil THEN <<>>
                ELSE [i \in 1..Len(c.file) |-> Event("ReleaseFile", c.file[i], c.ref)]]

\* columnBlock.close, the column store's OnZeroCB.
ColumnBlockOnZero(c) == ColumnBlockDestroy(c)

\* segmentFile.Destroy releasing the raw segment before the blocks.
SegmentFileDestroyRawFirst(s, order) ==
    [sf |-> [s EXCEPT !.mounted = FALSE],
     events |-> <<Event("seg.Unmount", 0, s.ref), Event("seg.Destroy", 0, s.ref)>>
                \o [i \in 1..Len(order) |-> Event("block.Destroy", order[i], s.ref)]]

\* segmentFile.Destroy: the blocks of the map are destroyed, in the order
\* the range over the map yields them, then the raw segment is unmounted
\* and destroyed.
SegmentFileDestroy(s, order) ==
    [sf |-> [s EXCEPT !.mounted = FALSE],
     events |-> [i \in 1..Len(order) |-> Event("block.Destroy", order[i], s.ref)]
                \o <<Event("seg.Unmount", 0, s.ref), Event("seg.Destroy", 0, s.ref)>>]

\* segmentFile.close, the segment store's OnZeroCB.
SegmentFileOnZero(s, order) == SegmentFileDestroy(s, order)

\* segmentFile.Close: returns nil, the reference count is not touched.
SegmentFileClose(s) == [sf |-> s, err |-> Nil, events |-> <<>>]

\* RefHelper.Unref on a segment store, OnZeroCB included: one teardown
\* event, holding the steps of the teardown, when the count reaches zero.
SegmentFileUnref(s, order) ==
    LET u == Unref(s)
    IN  IF u.zero
        THEN LET r == SegmentFileOnZero(u.obj, order)
             IN  [sf |-> r.sf, events |-> <<Event("teardown", r.events, u.obj.ref)>>]
        ELSE [sf |-> u.obj, events |-> <<>>]

\* RefHelper.Unref on a column store, OnZeroCB included.
ColumnBlockUnref(c) ==
    LET u == Unref(c)
    IN  IF u.zero
        THEN LET r == ColumnBlockOnZero(u.obj)
             IN  [cb |-> r.cb, events |-> <<Event("teardown", r.events, u.obj.ref)>>]
        ELSE [cb |-> u.obj, events |-> <<>>]

\* columnBlock.Close: cb.Unref(), returns nil.
ColumnBlockClose(c) == ColumnBlockUnref(c)

(***************************************************************************)
(* Index writers, readers and the index metadata (package indexwrapper).   *)
(* A zone map is serialized as <<min, max>>; a bloom filter as one bit per *)
(* key of the key space, bit k + 1 for key k.                              *)
(***************************************************************************)
BlockZoneMapIndex == "BlockZoneMapIndex"
StaticFilterIndex == "StaticFilterIndex"

SetMin(S) == CHOOSE x \in S : \A y \in S : x <= y
SetMax(S) == CHOOSE x \in S : \A y \in S : y <= x

\* ZMWriter.AddValues + Finalize: the exact minimum and maximum.
ZoneMapOf(values) == <<SetMin(values), SetMax(values)>>

\* BFWriter.AddValues + Finalize: every value sets its bit; fp are the other
\* keys whose bits the inserted values happen to set (false positives).
BloomFilterOf(values, fp) == [k \in 1..(MaxKey + 1) |-> IF (k - 1) \in values \cup fp THEN 1 ELSE 0]

IndexMetaOf(idxType, colIdx, internalIdx) ==
    [IdxType |-> idxType, ColIdx |-> colIdx, InternalIdx |-> internalIdx]

\* IndicesMeta.Marshal and Unmarshal: a count, then three numbers per meta.
IdxTypeCode(t) == IF t = BlockZoneMapIndex THEN 0 ELSE IF t = StaticFilterIndex THEN 1 ELSE 2
IdxTypeOfCode(n) == IF n = 0 THEN BlockZoneMapIndex
                    ELSE IF n = 1 THEN StaticFilterIndex ELSE "InvalidIndexType"

RECURSIVE MarshalMetas(_)
MarshalMetas(metas) ==
    IF metas = <<>> THEN <<>>
    ELSE <<IdxTypeCode(Head(metas).IdxType), Head(metas).ColIdx, Head(metas).InternalIdx>>
         \o MarshalMetas(Tail(metas))

Marshal(metas) == <<Len(metas)>> \o MarshalMetas(metas)

Unmarshal(buf) ==
    IF buf = <<>> THEN <<>>
    ELSE
    [i \in 1..buf[1] |->
        IndexMetaOf(IdxTypeOfCode(buf[3 * i - 1]), buf[3 * i], buf[3 * i + 1])]

\* ZMReader.Contains: the reader decodes the file it is bound to.
ZMContains(c, reader, key) ==
    LET zm == c.indexes[reader.slot + 1].content
    IN  zm[1] <= key /\ key <= zm[2]

\* ZMReader.ContainsAny: the positions of the keys inside [min, max].
ZMContainsAny(c, reader, keys) ==
    LET sel == {i \in 1..Len(keys) : ZMContains(c, reader, keys[i])}
    IN  [keyselects |-> sel, exist |-> sel # {}]

ErrFilter == "index.ErrFilter"
ErrIndexRead == "data.ErrIndexRead"
ErrPossibleDuplicate == "data.ErrPossibleDuplicate"

\* TranslateError: an error of the index package becomes one of this layer.
TranslateError(err) == IF err = ErrFilter THEN ErrIndexRead ELSE err

\* BFReader.MayContainsKey; fail: the filter cannot be read.
BFMayContainsKey(c, reader, key, fail) ==
    IF fail THEN [exist |-> FALSE, err |-> ErrFilter]
    ELSE [exist |-> c.indexes[reader.slot + 1].content[key + 1] = 1, err |-> Nil]

\* BFReader.MayContainsAnyKeys: narrows the selection to the keys whose bit
\* is set.
BFMayContainsAnyKeys(c, reader, keys, sel, fail) ==
    IF fail THEN [exist |-> FALSE, keyselects |-> {}, err |-> ErrFilter]
    ELSE LET hit == {i \in sel : c.indexes[reader.slot + 1].content[keys[i] + 1] = 1}
         IN  [exist |-> hit # {}, keyselects |-> hit, err |-> Nil]

(***************************************************************************)
(* immutableIndex.  trace lists the reader calls a query makes.            *)
(***************************************************************************)
NewImmutableIndex == [zmReader |-> NilFile, bfReader |-> NilFile]

\* The operations of the index interface that immutableIndex does not
\* support: each is panic("not supported").  A panic is returned here in the
\* err field, as the value the panic carries.
PanicNotSupported == "panic: not supported"

IsKeyDeleted(ix) == [index |-> ix, err |-> PanicNotSupported]
GetActiveRow(ix) == [index |-> ix, err |-> PanicNotSupported]

\* Delete returning nil without doing anything.
DeleteSilent(ix) == [index |-> ix, err |-> Nil]

Delete(ix) == [index |-> ix, err |-> PanicNotSupported]
BatchUpsert(ix) == [index |-> ix, err |-> PanicNotSupported]
WriteTo(ix) == [index |-> ix, err |-> PanicNotSupported]

MutationOps == {"IsKeyDeleted", "GetActiveRow", "Delete", "BatchUpsert", "WriteTo"}

MutationCall(ix, op) ==
    CASE op = "IsKeyDeleted" -> IsKeyDeleted(ix)
      [] op = "GetActiveRow" -> GetActiveRow(ix)
      [] op = "Delete" -> Delete(ix)
      [] op = "BatchUpsert" -> BatchUpsert(ix)
      [] op = "WriteTo" -> WriteTo(ix)

\* Dedup with the zone-map test inverted.
DedupZoneInverted(ix, c, key, bfFail) ==
    LET exist == ZMContains(c, ix.zmReader, key)
    IN  IF exist
        THEN [err |-> Nil, trace |-> <<"zm.Contains">>]
        ELSE LET r == BFMayContainsKey(c, ix.bfReader, key, bfFail)
                 trace == <<"zm.Contains", "bf.MayContainsKey">>
             IN  IF r.err # Nil
                 THEN [err |-> TranslateError(r.err), trace |-> trace]
                 ELSE IF r.exist
                 THEN [err |-> ErrPossibleDuplicate, trace |-> trace]
                 ELSE [err |-> Nil, trace |-> trace]

\* Dedup asking the bloom filter before the zone map.
DedupFilterFirst(ix, c, key, bfFail) ==
    LET r == BFMayContainsKey(c, ix.bfReader, key, bfFail)
        exist == ZMContains(c, ix.zmReader, key)
        trace == <<"bf.MayContainsKey", "zm.Contains">>
    IN  IF ~exist
        THEN [err |-> Nil, trace |-> trace]
        ELSE IF r.err # Nil
        THEN [err |-> TranslateError(r.err), trace |-> trace]
        ELSE IF r.exist
        THEN [err |-> ErrPossibleDuplicate, trace |-> trace]
        ELSE [err |-> Nil, trace |-> trace]

\* Dedup returning the filter's error as it is.
DedupNoTranslate(ix, c, key, bfFail) ==
    LET exist == ZMContains(c, ix.zmReader, key)
    IN  IF ~exist
        THEN [err |-> Nil, trace |-> <<"zm.Contains">>]
        ELSE LET r == BFMayContainsKey(c, ix.bfReader, key, bfFail)
                 trace == <<"zm.Contains", "bf.MayContainsKey">>
             IN  IF r.err # Nil
                 THEN [err |-> r.err, trace |-> trace]
                 ELSE IF r.exist
                 THEN [err |-> ErrPossibleDuplicate, trace |-> trace]
                 ELSE [err |-> Nil, trace |-> trace]

Dedup(ix, c, key, bfFail) ==
    LET exist == ZMContains(c, ix.zmReader, key)
    IN  IF ~exist
        THEN [err |-> Nil, trace |-> <<"zm.Contains">>]
        ELSE LET r == BFMayContainsKey(c, ix.bfReader, key, bfFail)
                 trace == <<"zm.Contains", "bf.MayContainsKey">>
             IN  IF r.err # Nil
                 THEN [err |-> TranslateError(r.err), trace |-> trace]
                 ELSE IF r.exist
                 THEN [err |-> ErrPossibleDuplicate, trace |-> trace]
                 ELSE [err |-> Nil, trace |-> trace]

\* BatchDedup giving the bloom filter every key instead of the zone map's
\* selection.
BatchDedupAllKeys(ix, c, keys, rowmask, bfFail) ==
    LET zm == ZMContainsAny(c, ix.zmReader, keys)
    IN  IF ~zm.exist
        THEN [keyselects |-> zm.keyselects, err |-> Nil, trace |-> <<"zm.ContainsAny">>]
        ELSE LET r == BFMayContainsAnyKeys(c, ix.bfReader, keys, 1..Len(keys), bfFail)
                 trace == <<"zm.ContainsAny", "bf.MayContainsAnyKeys">>
             IN  IF r.err # Nil
                 THEN [keyselects |-> r.keyselects, err |-> TranslateError(r.err),
                       trace |-> trace]
                 ELSE IF ~r.exist
                 THEN [keyselects |-> r.keyselects, err |-> Nil, trace |-> trace]
                 ELSE [keyselects |-> r.keyselects, err |-> ErrPossibleDuplicate,
                       trace |-> trace]

\* BatchDedup without its last assignment, err = data.ErrPossibleDuplicate.
BatchDedupNoDuplicate(ix, c, keys, rowmask, bfFail) ==
    LET zm == ZMContainsAny(c, ix.zmReader, keys)
    IN  IF ~zm.exist
        THEN [keyselects |-> zm.keyselects, err |-> Nil, trace |-> <<"zm.ContainsAny">>]
        ELSE LET r == BFMayContainsAnyKeys(c, ix.bfReader, keys, zm.keyselects, bfFail)
                 trace == <<"zm.ContainsAny", "bf.MayContainsAnyKeys">>
             IN  IF r.err # Nil
                 THEN [keyselects |-> r.keyselects, err |-> TranslateError(r.err),
                       trace |-> trace]
                 ELSE [keyselects |-> r.keyselects, err |-> Nil, trace |-> trace]

BatchDedup(ix, c, keys, rowmask, bfFail) ==
    LET zm == ZMContainsAny(c, ix.zmReader, keys)
    IN  IF ~zm.exist
        THEN [keyselects |-> zm.keyselects, err |-> Nil, trace |-> <<"zm.ContainsAny">>]
        ELSE LET r == BFMayContainsAnyKeys(c, ix.bfReader, keys, zm.keyselects, bfFail)
                 trace == <<"zm.ContainsAny", "bf.MayContainsAnyKeys">>
             IN  IF r.err # Nil
                 THEN [keyselects |-> r.keyselects, err |-> TranslateError(r.err),
                       trace |-> trace]
                 ELSE IF ~r.exist
                 THEN [keyselects |-> r.keyselects, err |-> Nil, trace |-> trace]
                 ELSE [keyselects |-> r.keyselects, err |-> ErrPossibleDuplicate,
                       trace |-> trace]

\* immutableIndex.Destroy going on to the bloom-filter reader after the
\* zone-map reader's Destroy has failed.
ImmutableIndexDestroyBoth(ix, zmErr, bfErr) ==
    [index |-> ix,
     err |-> IF zmErr # Nil THEN zmErr ELSE bfErr,
     trace |-> <<"zm.Destroy", "bf.Destroy">>]

\* immutableIndex.Destroy; zmErr and bfErr are what the two readers'
\* Destroy return.
ImmutableIndexDestroy(ix, zmErr, bfErr) ==
    IF zmErr # Nil
    THEN [index |-> ix, err |-> zmErr, trace |-> <<"zm.Destroy">>]
    ELSE [index |-> ix, err |-> bfErr, trace |-> <<"zm.Destroy", "bf.Destroy">>]

ErrIO == "io error"
PanicUnsupportedIndex == "panic: unsupported index type"

\* ReadFrom's loop over metas.Metas, from meta i on.  failAt numbers the
\* calls that can fail: 1 LoadIndexMeta, 2 OpenColumn, then for meta i
\* 2i + 1 OpenIndexFile and 2i + 2 idxFile.Read.
\* ReadFrom's loop passing over a meta of a kind it does not know.
RECURSIVE ReadFromLoopSkipUnknown(_, _, _, _, _)
ReadFromLoopSkipUnknown(ix, c, metas, i, failAt) ==
    IF i > Len(metas)
    THEN [index |-> ix, cb |-> c, err |-> Nil]
    ELSE
    LET meta == metas[i]
        opened == OpenIndexFile(c, meta.InternalIdx)
    IN  IF failAt = 2 * i + 1 THEN [index |-> ix, cb |-> c, err |-> ErrIO]
        ELSE IF opened.err # Nil THEN [index |-> ix, cb |-> c, err |-> opened.err]
        ELSE IF failAt = 2 * i + 2 /\ meta.IdxType \in {BlockZoneMapIndex, StaticFilterIndex}
        THEN [index |-> ix, cb |-> opened.cb, err |-> ErrIO]
        ELSE ReadFromLoopSkipUnknown(
                 IF meta.IdxType = BlockZoneMapIndex
                 THEN [ix EXCEPT !.zmReader = opened.vfile]
                 ELSE IF meta.IdxType = StaticFilterIndex
                 THEN [ix EXCEPT !.bfReader = opened.vfile]
                 ELSE ix,
                 opened.cb, metas, i + 1, failAt)

RECURSIVE ReadFromLoop(_, _, _, _, _)
ReadFromLoop(ix, c, metas, i, failAt) ==
    IF i > Len(metas)
    THEN [index |-> ix, cb |-> c, err |-> Nil]
    ELSE
    LET meta == metas[i]
        opened == OpenIndexFile(c, meta.InternalIdx)
    IN  IF failAt = 2 * i + 1 THEN [index |-> ix, cb |-> c, err |-> ErrIO]
        ELSE IF opened.err # Nil THEN [index |-> ix, cb |-> c, err |-> opened.err]
        ELSE IF meta.IdxType = BlockZoneMapIndex
        THEN IF failAt = 2 * i + 2 THEN [index |-> ix, cb |-> opened.cb, err |-> ErrIO]
             ELSE ReadFromLoop([ix EXCEPT !.zmReader = opened.vfile],
                               opened.cb, metas, i + 1, failAt)
        ELSE IF meta.IdxType = StaticFilterIndex
        THEN IF failAt = 2 * i + 2 THEN [index |-> ix, cb |-> opened.cb, err |-> ErrIO]
             ELSE ReadFromLoop([ix EXCEPT !.bfReader = opened.vfile],
                               opened.cb, metas, i + 1, failAt)
        ELSE [index |-> ix, cb |-> opened.cb, err |-> PanicUnsupportedIndex]

ReadFrom(ix, c, metaBuf, failAt) ==
    IF failAt = 1 \/ failAt = 2
    THEN [index |-> ix, cb |-> c, err |-> ErrIO]
    ELSE ReadFromLoop(ix, c, Unmarshal(metaBuf), 1, failAt)

(***************************************************************************)
(* jobs.BuildAndFlushBlockIndex.  failAt numbers the calls that can fail,  *)
(* in program order (0: none fails):                                       *)
(*   1 OpenColumn        2 OpenIndexFile(zm)  3 zm.Init   4 zm.AddValues   *)
(*   5 zm.Finalize       6 OpenIndexFile(sf)  7 bf.Init   8 bf.AddValues   *)
(*   9 bf.Finalize      10 metas.Marshal     11 WriteIndexMeta             *)
(* done lists the calls that returned without error.                       *)
(***************************************************************************)
ZmIdx == 0
SfIdx == 1
BuildCalls == 11

BuildState(c, metaBuf) ==
    [cb |-> c, metas |-> <<>>, indexMeta |-> metaBuf, err |-> Nil, done |-> <<>>]

\* The calls of the job with the two descriptors recorded together after
\* the bloom filter is finalized, the bloom filter's first.
BuildCallFilterMetaFirst(st, n, pk, values, fp) ==
    LET ok == [st EXCEPT !.done = Append(@, n)]
    IN  CASE n = 2 ->
               LET r == OpenIndexFile(st.cb, ZmIdx)
               IN  IF r.err # Nil THEN [st EXCEPT !.err = r.err]
                   ELSE [ok EXCEPT !.cb = r.cb]
          [] n = 5 ->
               [ok EXCEPT !.cb.indexes[ZmIdx + 1] = VFileWrite(@, ZoneMapOf(values))]
          [] n = 6 ->
               LET r == OpenIndexFile(st.cb, SfIdx)
               IN  IF r.err # Nil THEN [st EXCEPT !.err = r.err]
                   ELSE [ok EXCEPT !.cb = r.cb]
          [] n = 9 ->
               [ok EXCEPT !.cb.indexes[SfIdx + 1] = VFileWrite(@, BloomFilterOf(values, fp)),
                          !.metas = @ \o <<IndexMetaOf(StaticFilterIndex, pk, SfIdx),
                                           IndexMetaOf(BlockZoneMapIndex, pk, ZmIdx)>>]
          [] n = 11 ->
               [ok EXCEPT !.indexMeta = Marshal(st.metas)]
          [] OTHER -> ok

\* Call n of the job on state st, given that it does not fail by itself.
BuildCall(st, n, pk, values, fp) ==
    LET ok == [st EXCEPT !.done = Append(@, n)]
    IN  CASE n = 2 ->
               LET r == OpenIndexFile(st.cb, ZmIdx)
               IN  IF r.err # Nil THEN [st EXCEPT !.err = r.err]
                   ELSE [ok EXCEPT !.cb = r.cb]
          [] n = 5 ->
               [ok EXCEPT !.cb.indexes[ZmIdx + 1] = VFileWrite(@, ZoneMapOf(values)),
                          !.metas = Append(@, IndexMetaOf(BlockZoneMapIndex, pk, ZmIdx))]
          [] n = 6 ->
               LET r == OpenIndexFile(st.cb, SfIdx)
               IN  IF r.err # Nil THEN [st EXCEPT !.err = r.err]
                   ELSE [ok EXCEPT !.cb = r.cb]
          [] n = 9 ->
               [ok EXCEPT !.cb.indexes[SfIdx + 1] = VFileWrite(@, BloomFilterOf(values, fp)),
                          !.metas = Append(@, IndexMetaOf(StaticFilterIndex, pk, SfIdx))]
          [] n = 11 ->
               [ok EXCEPT !.indexMeta = Marshal(st.metas)]
          [] OTHER -> ok

\* The job going on to its next call after a call has failed.
RECURSIVE BuildFromKeepGoing(_, _, _, _, _, _)
BuildFromKeepGoing(st, n, pk, values, fp, failAt) ==
    IF n > BuildCalls THEN st
    ELSE IF failAt = n
    THEN BuildFromKeepGoing([st EXCEPT !.err = ErrIO], n + 1, pk, values, fp, failAt)
    ELSE BuildFromKeepGoing(BuildCall(st, n, pk, values, fp), n + 1, pk, values, fp, failAt)

RECURSIVE BuildFrom(_, _, _, _, _, _)
BuildFrom(st, n, pk, values, fp, failAt) ==
    IF n > BuildCalls THEN st
    ELSE IF failAt = n THEN [st EXCEPT !.err = ErrIO]
    ELSE LET st1 == BuildCall(st, n, pk, values, fp)
         IN  IF st1.err # Nil THEN st1
             ELSE BuildFrom(st1, n + 1, pk, values, fp, failAt)

BuildAndFlushBlockIndex(c, metaBuf, pk, values, fp, failAt) ==
    BuildFrom(BuildState(c, metaBuf), 1, pk, values, fp, failAt)

(***************************************************************************)
(* Values of the variables a specification does not use.                   *)
(***************************************************************************)
NoCol == newColumnBlock(1, 0, 0)
NoColRet == [op |-> "none", idx |-> -1, ts |-> 0, buf |-> <<>>, err |-> Nil,
             out |-> <<>>, val |-> 0, vfile |-> NilFile, io |-> <<>>]
NoSegRet == [op |-> "none", id |-> 0, col |-> 0, ts |-> 0, segErr |-> Nil, err |-> Nil]
NoIdxRet == [op |-> "none", key |-> 0, keys |-> <<>>, bfFail |-> FALSE, failAt |-> 0,
             zmErr |-> Nil, bfErr |-> Nil,
             err |-> Nil, keyselects |-> {}, trace |-> <<>>, done |-> <<>>]

ColIdle == cb = NoCol /\ colRet = NoColRet
SegIdle == sf = openSegment /\ segRet = NoSegRet
IdxIdle == pkData = {} /\ indexMeta = <<>> /\ index = NewImmutableIndex
           /\ idxPc = "none" /\ idxRet = NoIdxRet
LifeIdle == subject = "none" /\ threads = <<>> /\ events = <<>>

(***************************************************************************)
(* SpecCol: the column store of the primary-key column of block 1, made by *)
(* newColumnBlock or by openColumnBlock, and the calls of its interface.   *)
(***************************************************************************)
RECURSIVE SumRefs(_)
SumRefs(fs) == IF fs = <<>> THEN 0 ELSE Head(fs).ref + SumRefs(Tail(fs))

\* The handles of column store c opened so far: each file starts with one
\* reference and gains one per open.
Opens(c) == SumRefs(c.indexes) + c.updates.ref + c.data.ref - (Len(c.indexes) + 2)

ColCall(op, idx, ts, buf, val, r) ==
    [op |-> op, idx |-> idx, ts |-> ts, buf |-> buf, err |-> r.err,
     out |-> r.out, val |-> val, vfile |-> r.vfile, io |-> r.io]

InitCol ==
    /\ \/ /\ cb = newColumnBlock(1, SchemaIndexCnt[PrimaryKey], PrimaryKey)
          /\ nodes = {BaseFileName(PrimaryKey, 1)}
          /\ colRet = [NoColRet EXCEPT !.op = "newColumnBlock"]
       \/ /\ cb = openColumnBlock(1, SchemaIndexCnt[PrimaryKey], PrimaryKey)
          /\ nodes = {}
          /\ colRet = [NoColRet EXCEPT !.op = "openColumnBlock"]
    /\ SegIdle
    /\ IdxIdle
    /\ LifeIdle

ColWriteTS ==
    \E ts \in TS :
        /\ Len(cb.file) < MaxFiles
        /\ LET r == WriteTS(cb, ts)
           IN  /\ cb' = r.cb
               /\ nodes' = nodes \cup r.created
               /\ colRet' = ColCall("WriteTS", -1, ts, <<>>, 0, r)
        /\ UNCHANGED <<lifeVars, sf, segRet, pkData, indexMeta, index, idxPc, idxRet>>

ColReadTS ==
    /\ colRet' = [NoColRet EXCEPT !.op = "ReadTS", !.val = ReadTS(cb)]
    /\ UNCHANGED <<lifeVars, nodes, cb, sf, segRet, pkData, indexMeta, index, idxPc, idxRet>>

ColWriteIndex ==
    \E idx \in 0..(Len(cb.indexes) + 1), buf \in Bufs :
        /\ LET r == WriteIndex(cb, idx, buf)
           IN  /\ cb' = r.cb
               /\ colRet' = ColCall("WriteIndex", idx, 0, buf, 0, r)
        /\ UNCHANGED <<lifeVars, nodes, sf, segRet, pkData, indexMeta, index, idxPc, idxRet>>

ColReadIndex ==
    \E idx \in 0..(Len(cb.indexes) + 1) :
        /\ LET r == ReadIndex(cb, idx)
           IN  /\ cb' = r.cb
               /\ colRet' = ColCall("ReadIndex", idx, 0, <<>>, 0, r)
        /\ UNCHANGED <<lifeVars, nodes, sf, segRet, pkData, indexMeta, index, idxPc, idxRet>>

ColOpenIndexFile ==
    \E idx \in 0..(Len(cb.indexes) + 1) :
        /\ idx < Len(cb.indexes) => Opens(cb) < MaxOpens
        /\ LET r == OpenIndexFile(cb, idx)
           IN  /\ cb' = r.cb
               /\ colRet' = ColCall("OpenIndexFile", idx, 0, <<>>, 0, r)
        /\ UNCHANGED <<lifeVars, nodes, sf, segRet, pkData, indexMeta, index, idxPc, idxRet>>

ColOpenUpdateFile ==
    /\ Opens(cb) < MaxOpens
    /\ LET r == OpenUpdateFile(cb)
       IN  /\ cb' = r.cb
           /\ colRet' = ColCall("OpenUpdateFile", -1, 0, <<>>, 0, r)
    /\ UNCHANGED <<lifeVars, nodes, sf, segRet, pkData, indexMeta, index, idxPc, idxRet>>

ColOpenDataFile ==
    /\ Opens(cb) < MaxOpens
    /\ LET r == OpenDataFile(cb)
       IN  /\ cb' = r.cb
           /\ colRet' = ColCall("OpenDataFile", -1, 0, <<>>, 0, r)
    /\ UNCHANGED <<lifeVars, nodes, sf, segRet, pkData, indexMeta, index, idxPc, idxRet>>

NextCol ==
    \/ ColWriteTS
    \/ ColReadTS
    \/ ColWriteIndex
    \/ ColReadIndex
    \/ ColOpenIndexFile
    \/ ColOpenUpdateFile
    \/ ColOpenDataFile

SpecCol == InitCol /\ [][NextCol]_vars

(***************************************************************************)
(* SpecSeg: a segment made by newSegmentFile, its blocks opened and their  *)
(* columns versioned; the segment object is then dropped and the segment   *)
(* reopened with openSegment and replayed from the raw store's listing,    *)
(* which still holds every file written.                                   *)
(***************************************************************************)
SegCall(op, id, col, ts, segErr, r) ==
    [op |-> op, id |-> id, col |-> col, ts |-> ts, segErr |-> segErr, err |-> r.err]

InitSeg ==
    /\ sf = newSegmentFile
    /\ nodes = {}
    /\ segRet = [NoSegRet EXCEPT !.op = "newSegmentFile"]
    /\ ColIdle
    /\ IdxIdle
    /\ LifeIdle

SegOpenBlock ==
    \E id \in BlockIds :
        /\ sf.replayed
        /\ id \in DOMAIN sf.blocks \/ Cardinality(nodes) + ColCnt <= MaxNodes
        /\ LET r == OpenBlock(sf, id, ColCnt, SchemaIndexCnt)
           IN  /\ sf' = r.sf
               /\ nodes' = nodes \cup r.created
               /\ segRet' = SegCall("OpenBlock", id, 0, 0, Nil, r)
        /\ UNCHANGED <<lifeVars, cb, colRet, pkData, indexMeta, index, idxPc, idxRet>>

SegWriteTS ==
    \E id \in DOMAIN sf.blocks, col \in Cols, ts \in TS :
        /\ sf.replayed
        /\ Len(sf.blocks[id].columns[col + 1].file) < MaxFiles
        /\ LET r == BlockWriteTS(sf, id, col, ts)
           IN  /\ Cardinality(nodes \cup r.created) <= MaxNodes
               /\ sf' = r.sf
               /\ nodes' = nodes \cup r.created
               /\ segRet' = SegCall("WriteTS", id, col, ts, Nil, r)
        /\ UNCHANGED <<lifeVars, cb, colRet, pkData, indexMeta, index, idxPc, idxRet>>

SegReopen ==
    /\ sf.replayed
    /\ sf' = openSegment
    /\ segRet' = [NoSegRet EXCEPT !.op = "openSegment"]
    /\ UNCHANGED <<lifeVars, nodes, cb, colRet, pkData, indexMeta, index, idxPc, idxRet>>

SegReplay ==
    /\ ~sf.replayed
    /\ \E segErr \in {Nil, ErrIO} :
         \E order \in (IF segErr = Nil THEN Orders(nodes) ELSE {<<>>}) :
            LET r == Replay(sf, ColCnt, SchemaIndexCnt, segErr, order)
            IN  /\ sf' = r.sf
                /\ segRet' = SegCall("Replay", 0, 0, 0, segErr, r)
    /\ UNCHANGED <<lifeVars, nodes, cb, colRet, pkData, indexMeta, index, idxPc, idxRet>>

NextSeg ==
    \/ SegOpenBlock
    \/ SegWriteTS
    \/ SegReopen
    \/ SegReplay

SpecSeg == InitSeg /\ [][NextSeg]_vars

(***************************************************************************)
(* SpecRaw: SpecSeg with a raw store that also holds names this layer did  *)
(* not write: one without separator, and one with a column, a block or a   *)
(* timestamp field that is no number.                                      *)
(***************************************************************************)
NoSeparatorName == <<"m", "e", "t", "a">> \o BlkSuffix
BadColumnName == <<"x", "_", "1">> \o BlkSuffix
BadBlockName == <<"0", "_", "x">> \o BlkSuffix
BadTSName == <<"0", "_", "1", "_", "x">> \o BlkSuffix
ForeignNames == {NoSeparatorName, BadColumnName, BadBlockName, BadTSName}

SegForeignFile ==
    \E name \in ForeignNames :
        /\ sf.replayed
        /\ name \notin nodes
        /\ Cardinality(nodes \cap ForeignNames) < MaxForeign
        /\ Cardinality(nodes) < MaxNodes
        /\ nodes' = nodes \cup {name}
        /\ segRet' = [NoSegRet EXCEPT !.op = "ForeignFile"]
        /\ UNCHANGED <<lifeVars, cb, colRet, sf, pkData, indexMeta, index, idxPc, idxRet>>

NextRaw ==
    \/ SegOpenBlock
    \/ SegWriteTS
    \/ SegReopen
    \/ SegReplay
    \/ SegForeignFile

SpecRaw == InitSeg /\ [][NextRaw]_vars

(***************************************************************************)
(* SpecIdx: block 1 is sealed with the primary-key values pkData; the      *)
(* index builder runs, an immutableIndex is loaded with ReadFrom and then  *)
(* queried.                                                                *)
(***************************************************************************)
KeyVectors == UNION {[1..n -> Keys] : n \in 1..MaxBatch}

InitIdx ==
    /\ pkData \in (SUBSET Keys) \ {{}}
    /\ cb = newColumnBlock(1, SchemaIndexCnt[PrimaryKey], PrimaryKey)
    /\ nodes = {BaseFileName(PrimaryKey, 1)}
    /\ indexMeta = <<>>
    /\ index = NewImmutableIndex
    /\ idxPc = "sealed"
    /\ idxRet = NoIdxRet
    /\ colRet = NoColRet
    /\ SegIdle
    /\ LifeIdle

IdxBuild ==
    \E failAt \in 0..BuildCalls, fp \in SUBSET (Keys \ pkData) :
        /\ idxPc = "sealed"
        /\ LET r == BuildAndFlushBlockIndex(cb, indexMeta, PrimaryKey, pkData, fp, failAt)
           IN  /\ cb' = r.cb
               /\ indexMeta' = r.indexMeta
               /\ idxPc' = IF r.err = Nil THEN "built" ELSE "buildFailed"
               /\ idxRet' = [NoIdxRet EXCEPT !.op = "BuildAndFlushBlockIndex",
                                             !.failAt = failAt, !.err = r.err,
                                             !.done = r.done]
        /\ UNCHANGED <<lifeVars, nodes, colRet, sf, segRet, pkData, index>>

IdxReadFrom ==
    \E failAt \in 0..(2 * Len(Unmarshal(indexMeta)) + 2) :
        /\ idxPc = "built"
        /\ LET r == ReadFrom(index, cb, indexMeta, failAt)
           IN  /\ index' = r.index
               /\ cb' = r.cb
               /\ idxPc' = IF r.err = Nil THEN "loaded" ELSE "loadFailed"
               /\ idxRet' = [NoIdxRet EXCEPT !.op = "ReadFrom", !.failAt = failAt,
                                             !.err = r.err]
        /\ UNCHANGED <<lifeVars, nodes, colRet, sf, segRet, pkData, indexMeta>>

IdxDedup ==
    \E key \in Keys, bfFail \in BOOLEAN :
        /\ idxPc = "loaded"
        /\ LET r == Dedup(index, cb, key, bfFail)
           IN  idxRet' = [NoIdxRet EXCEPT !.op = "Dedup", !.key = key, !.bfFail = bfFail,
                                          !.err = r.err, !.trace = r.trace]
        /\ UNCHANGED <<lifeVars, nodes, cb, colRet, sf, segRet, pkData, indexMeta, index, idxPc>>

IdxBatchDedup ==
    \E keys \in KeyVectors, rowmask \in {{1}}, bfFail \in BOOLEAN :
        /\ idxPc = "loaded"
        /\ LET r == BatchDedup(index, cb, keys, rowmask, bfFail)
           IN  idxRet' = [NoIdxRet EXCEPT !.op = "BatchDedup", !.keys = keys,
                                          !.bfFail = bfFail, !.err = r.err,
                                          !.keyselects = r.keyselects, !.trace = r.trace]
        /\ UNCHANGED <<lifeVars, nodes, cb, colRet, sf, segRet, pkData, indexMeta, index, idxPc>>

\* Index metadata of the block that the index builder of this version did
\* not write: a descriptor of an unknown kind, alone or after a zone-map
\* descriptor, a descriptor naming a slot the column does not have, and the
\* two descriptors the builder writes, the bloom filter's first.
ForeignMetas ==
    {<<IndexMetaOf("UnknownIndex", PrimaryKey, ZmIdx)>>,
     <<IndexMetaOf(BlockZoneMapIndex, PrimaryKey, ZmIdx),
       IndexMetaOf("UnknownIndex", PrimaryKey, SfIdx)>>,
     <<IndexMetaOf(BlockZoneMapIndex, PrimaryKey, SchemaIndexCnt[PrimaryKey])>>,
     <<IndexMetaOf(StaticFilterIndex, PrimaryKey, SfIdx),
       IndexMetaOf(BlockZoneMapIndex, PrimaryKey, ZmIdx)>>}

IdxForeignMeta ==
    \E metas \in ForeignMetas :
        /\ idxPc = "built"
        /\ indexMeta \notin {Marshal(m) : m \in ForeignMetas}
        /\ indexMeta' = Marshal(metas)
        /\ idxRet' = [NoIdxRet EXCEPT !.op = "ForeignMeta"]
        /\ UNCHANGED <<lifeVars, nodes, cb, colRet, sf, segRet, pkData, index, idxPc>>

\* A call of an unsupported operation.  The panic unwinds the caller:
\* recovered tells whether a caller recovers from it or the process ends.
IdxMutation ==
    \E op \in MutationOps, recovered \in BOOLEAN :
        /\ idxPc \in {"sealed", "built", "loaded"}
        /\ LET r == MutationCall(index, op)
           IN  /\ index' = r.index
               /\ idxRet' = [NoIdxRet EXCEPT !.op = op, !.err = r.err]
               /\ idxPc' = IF r.err = PanicNotSupported /\ ~recovered
                           THEN "terminated" ELSE idxPc
        /\ UNCHANGED <<lifeVars, nodes, cb, colRet, sf, segRet, pkData, indexMeta>>

\* The loaded index is discarded: Destroy, each reader's Destroy returning
\* nil or an error.
IdxDestroy ==
    \E zmErr \in {Nil, ErrIO, ErrFilter}, bfErr \in {Nil, ErrIO, ErrFilter} :
        /\ idxPc = "loaded"
        /\ LET r == ImmutableIndexDestroy(index, zmErr, bfErr)
           IN  /\ index' = r.index
               /\ idxRet' = [NoIdxRet EXCEPT !.op = "Destroy", !.zmErr = zmErr,
                                             !.bfErr = bfErr, !.err = r.err,
                                             !.trace = r.trace]
        /\ idxPc' = "destroyed"
        /\ UNCHANGED <<lifeVars, nodes, cb, colRet, sf, segRet, pkData, indexMeta>>

NextIdx ==
    \/ IdxBuild
    \/ IdxReadFrom
    \/ IdxDedup
    \/ IdxBatchDedup
    \/ IdxForeignMeta
    \/ IdxMutation
    \/ IdxDestroy

SpecIdx == InitIdx /\ [][NextIdx]_vars

(***************************************************************************)
(* SpecPairs: a segment store made by newSegmentFile, or a column store    *)
(* made by newColumnBlock, shared by threads.  Threads 1..n each call Ref  *)
(* and then Unref; when all have returned, thread n + 1 calls Unref.  An   *)
(* Unref is two steps: the atomic decrement, and, in the thread that saw   *)
(* zero, the call of OnZeroCB.                                             *)
(***************************************************************************)
SubjectRef == IF subject = "segment" THEN sf.ref ELSE cb.ref

LastThread == Len(threads)

InitPairs ==
    /\ \E n \in 1..MaxPairs : threads = [t \in 1..(n + 1) |-> "start"]
    /\ events = <<>>
    /\ \/ /\ subject = "segment"
          /\ sf = newSegmentFile
          /\ segRet = [NoSegRet EXCEPT !.op = "newSegmentFile"]
          /\ nodes = {}
          /\ ColIdle
       \/ /\ subject = "column"
          /\ cb = newColumnBlock(1, SchemaIndexCnt[PrimaryKey], PrimaryKey)
          /\ colRet = [NoColRet EXCEPT !.op = "newColumnBlock"]
          /\ nodes = {BaseFileName(PrimaryKey, 1)}
          /\ SegIdle
    /\ IdxIdle

\* Thread t's atomic increment.
PairRef ==
    \E t \in 1..(LastThread - 1) :
        /\ threads[t] = "start"
        /\ threads' = [threads EXCEPT ![t] = "reffed"]
        /\ IF subject = "segment"
           THEN sf' = Ref(sf) /\ cb' = cb
           ELSE cb' = Ref(cb) /\ sf' = sf
        /\ UNCHANGED <<nodes, colRet, segRet, pkData, indexMeta, index, idxPc, idxRet,
                       subject, events>>

\* The atomic decrement of an Unref: by a thread that has called Ref, or
\* by the last thread once every other thread has returned.
PairUnref ==
    \E t \in 1..LastThread :
        /\ IF t = LastThread
           THEN /\ threads[t] = "start"
                /\ \A u \in 1..(LastThread - 1) : threads[u] = "done"
           ELSE threads[t] = "reffed"
        /\ LET r == Unref(IF subject = "segment" THEN sf ELSE cb)
           IN  /\ threads' = [threads EXCEPT ![t] = IF r.zero THEN "zero" ELSE "done"]
               /\ IF subject = "segment"
                  THEN sf' = r.obj /\ cb' = cb
                  ELSE cb' = r.obj /\ sf' = sf
        /\ UNCHANGED <<nodes, colRet, segRet, pkData, indexMeta, index, idxPc, idxRet,
                       subject, events>>

\* The call of OnZeroCB by the thread whose decrement reached zero.
PairOnZero ==
    \E t \in 1..LastThread :
        /\ threads[t] = "zero"
        /\ threads' = [threads EXCEPT ![t] = "done"]
        /\ IF subject = "segment"
           THEN \E order \in Orders(DOMAIN sf.blocks) :
                    LET r == SegmentFileOnZero(sf, order)
                    IN  /\ sf' = r.sf
                        /\ cb' = cb
                        /\ events' = events \o <<Event("OnZeroCB", t, sf.ref)>> \o r.events
           ELSE LET r == ColumnBlockOnZero(cb)
                IN  /\ cb' = r.cb
                    /\ sf' = sf
                    /\ events' = events \o <<Event("OnZeroCB", t, cb.ref)>> \o r.events
        /\ UNCHANGED <<nodes, colRet, segRet, pkData, indexMeta, index, idxPc, idxRet,
                       subject>>

NextPairs ==
    \/ PairRef
    \/ PairUnref
    \/ PairOnZero

SpecPairs == InitPairs /\ [][NextPairs]_vars

(***************************************************************************)
(* SpecLife: one caller's calls on a segment store, made by newSegmentFile *)
(* or opened over a persisted block by openSegment, or on a column store   *)
(* made by newColumnBlock: the block map's calls and Ref, Unref, Close and *)
(* Destroy.  events records block creations and removals and every run of  *)
(* a teardown.                                                             *)
(***************************************************************************)
SetToSeq(S) == CHOOSE q \in Orders(S) : TRUE

LifeSegCall(op, id) == [NoSegRet EXCEPT !.op = op, !.id = id]

InitLife ==
    /\ threads = <<>>
    /\ events = <<>>
    /\ \/ /\ subject = "segment"
          /\ sf = newSegmentFile
          /\ segRet = LifeSegCall("newSegmentFile", 0)
          /\ nodes = {}
          /\ ColIdle
       \/ /\ subject = "segment"
          /\ sf = openSegment
          /\ segRet = LifeSegCall("openSegment", 0)
          /\ \E id \in BlockIds : nodes = NewBlockFiles(id, ColCnt)
          /\ ColIdle
       \/ /\ subject = "column"
          /\ cb = newColumnBlock(1, SchemaIndexCnt[PrimaryKey], PrimaryKey)
          /\ colRet = [NoColRet EXCEPT !.op = "newColumnBlock"]
          /\ nodes = {BaseFileName(PrimaryKey, 1)}
          /\ SegIdle
    /\ IdxIdle

LifeOpenBlock ==
    \E id \in BlockIds :
        /\ subject = "segment"
        /\ Len(events) < MaxEvents
        /\ LET r == OpenBlock(sf, id, ColCnt, SchemaIndexCnt)
           IN  /\ Cardinality(nodes \cup r.created) <= MaxNodes
               /\ sf' = r.sf
               /\ nodes' = nodes \cup r.created
               /\ events' = IF r.created # {}
                            THEN Append(events, Event("create", id, sf.ref))
                            ELSE events
        /\ segRet' = LifeSegCall("OpenBlock", id)
        /\ UNCHANGED <<cb, colRet, pkData, indexMeta, index, idxPc, idxRet,
                       subject, threads>>

LifeRemoveBlock ==
    \E id \in BlockIds :
        /\ subject = "segment"
        /\ Len(events) < MaxEvents
        /\ sf' = RemoveBlock(sf, id)
        /\ events' = IF id \in DOMAIN sf.blocks
                     THEN Append(events, Event("remove", id, sf.ref))
                     ELSE events
        /\ segRet' = LifeSegCall("RemoveBlock", id)
        /\ UNCHANGED <<nodes, cb, colRet, pkData, indexMeta, index, idxPc, idxRet,
                       subject, threads>>

LifeReplay ==
    /\ subject = "segment"
    /\ ~sf.replayed
    /\ Len(events) < MaxEvents
    /\ \E order \in Orders(nodes) :
         LET r == Replay(sf, ColCnt, SchemaIndexCnt, Nil, order)
             made == SetToSeq((DOMAIN r.sf.blocks) \ (DOMAIN sf.blocks))
         IN  /\ sf' = r.sf
             /\ events' = events \o [i \in 1..Len(made) |-> Event("create", made[i], sf.ref)]
             /\ segRet' = [LifeSegCall("Replay", 0) EXCEPT !.err = r.err]
    /\ UNCHANGED <<nodes, cb, colRet, pkData, indexMeta, index, idxPc, idxRet,
                   subject, threads>>

LifeRef ==
    /\ subject # "none"
    /\ SubjectRef > 0
    /\ SubjectRef < MaxRefs
    /\ IF subject = "segment"
       THEN /\ sf' = Ref(sf)
            /\ segRet' = LifeSegCall("Ref", 0)
            /\ UNCHANGED <<cb, colRet>>
       ELSE /\ cb' = Ref(cb)
            /\ colRet' = [NoColRet EXCEPT !.op = "Ref"]
            /\ UNCHANGED <<sf, segRet>>
    /\ UNCHANGED <<nodes, pkData, indexMeta, index, idxPc, idxRet,
                   subject, threads, events>>

LifeUnref ==
    /\ subject # "none"
    /\ SubjectRef > 0
    /\ Len(events) < MaxEvents
    /\ IF subject = "segment"
       THEN \E order \in Orders(DOMAIN sf.blocks) :
                LET r == SegmentFileUnref(sf, order)
                IN  /\ sf' = r.sf
                    /\ events' = events \o r.events
                    /\ segRet' = LifeSegCall("Unref", 0)
                    /\ UNCHANGED <<cb, colRet>>
       ELSE LET r == ColumnBlockUnref(cb)
            IN  /\ cb' = r.cb
                /\ events' = events \o r.events
                /\ colRet' = [NoColRet EXCEPT !.op = "Unref"]
                /\ UNCHANGED <<sf, segRet>>
    /\ UNCHANGED <<nodes, pkData, indexMeta, index, idxPc, idxRet, subject, threads>>

LifeClose ==
    /\ subject # "none"
    /\ SubjectRef > 0
    /\ Len(events) < MaxEvents
    /\ IF subject = "segment"
       THEN LET r == SegmentFileClose(sf)
            IN  /\ sf' = r.sf
                /\ events' = events \o r.events
                /\ segRet' = [LifeSegCall("Close", 0) EXCEPT !.err = r.err]
                /\ UNCHANGED <<cb, colRet>>
       ELSE LET r == ColumnBlockClose(cb)
            IN  /\ cb' = r.cb
                /\ events' = events \o r.events
                /\ colRet' = [NoColRet EXCEPT !.op = "Close"]
                /\ UNCHANGED <<sf, segRet>>
    /\ UNCHANGED <<nodes, pkData, indexMeta, index, idxPc, idxRet, subject, threads>>

LifeDestroy ==
    /\ subject # "none"
    /\ Len(events) < MaxEvents
    /\ IF subject = "segment"
       THEN \E order \in Orders(DOMAIN sf.blocks) :
                LET r == SegmentFileDestroy(sf, order)
                IN  /\ sf' = r.sf
                    /\ events' = Append(events, Event("teardown", r.events, sf.ref))
                    /\ segRet' = LifeSegCall("Destroy", 0)
                    /\ UNCHANGED <<cb, colRet>>
       ELSE LET r == ColumnBlockDestroy(cb)
            IN  /\ cb' = r.cb
                /\ events' = Append(events, Event("teardown", r.events, cb.ref))
                /\ colRet' = [NoColRet EXCEPT !.op = "Destroy"]
                /\ UNCHANGED <<sf, segRet>>
    /\ UNCHANGED <<nodes, pkData, indexMeta, index, idxPc, idxRet, subject, threads>>

NextLife ==
    \/ LifeOpenBlock
    \/ LifeRemoveBlock
    \/ LifeReplay
    \/ LifeRef
    \/ LifeUnref
    \/ LifeClose
    \/ LifeDestroy

SpecLife == InitLife /\ [][NextLife]_vars

(***************************************************************************)
(* SpecDestroy: segmentFile.Destroy run by one thread, step by step, while *)
(* other threads call OpenBlock and RemoveBlock.  threads[1] is the        *)
(* destroying thread: its position, its local variable blocks, the keys    *)
(* its range has yielded and the keys put in the map since the range       *)
(* began.  OpenBlock and RemoveBlock hold sf.Lock() from entry to return   *)
(* and are one step each.                                                  *)
(***************************************************************************)
\* `blocks := sf.blocks` copies a Go map value, which is a reference to the
\* map: the local variable and the field name the same map.
BlocksAlias == "sf.blocks"

DestroyThread(pc, blocks, visited, added) ==
    [pc |-> pc, blocks |-> blocks, visited |-> visited, added |-> added]

\* The map the local variable blocks of the destroying thread refers to.
BlocksOf(t, s) == IF t.blocks = BlocksAlias THEN s.blocks ELSE t.blocks

\* The keys a range over map m can still yield, and whether it can end: a
\* key removed before it is reached is not yielded; a key put in the map
\* during the range may be yielded or passed over.
RangeNext(t, m) == (DOMAIN m) \ t.visited
RangeCanEnd(t, m) == RangeNext(t, m) \subseteq t.added

\* A write of the map while another thread ranges over it, without a
\* common lock, is a data race: the runtime may stop the process with
\* "concurrent map iteration and map write", or go on.
RaceOutcomes(t, written) ==
    IF t.pc = "iterating" /\ t.blocks = BlocksAlias /\ written
    THEN {"fatal", "iterating"}
    ELSE {t.pc}

InitDestroy ==
    /\ subject = "segment"
    /\ sf = newSegmentFile
    /\ segRet = LifeSegCall("newSegmentFile", 0)
    /\ nodes = {}
    /\ threads = <<DestroyThread("idle", <<>>, {}, {})>>
    /\ events = <<>>
    /\ ColIdle
    /\ IdxIdle

DestroyOpenBlock ==
    \E id \in BlockIds :
        /\ threads[1].pc \in {"idle", "iterating"}
        /\ LET r == OpenBlock(sf, id, ColCnt, SchemaIndexCnt)
               t == threads[1]
               written == id \notin DOMAIN sf.blocks
           IN  /\ Cardinality(nodes \cup r.created) <= MaxNodes
               /\ sf' = r.sf
               /\ nodes' = nodes \cup r.created
               /\ \E pc \in RaceOutcomes(t, written) :
                    threads' = <<[t EXCEPT !.pc = pc,
                                           !.added = IF t.pc = "iterating" /\ written
                                                     THEN @ \cup {id} ELSE @]>>
        /\ segRet' = LifeSegCall("OpenBlock", id)
        /\ UNCHANGED <<cb, colRet, pkData, indexMeta, index, idxPc, idxRet,
                       subject, events>>

DestroyRemoveBlock ==
    \E id \in BlockIds :
        /\ threads[1].pc \in {"idle", "iterating"}
        /\ LET t == threads[1]
               written == id \in DOMAIN sf.blocks
           IN  /\ sf' = RemoveBlock(sf, id)
               /\ \E pc \in RaceOutcomes(t, written) :
                    threads' = <<[t EXCEPT !.pc = pc,
                                           !.visited = @ \ {id},
                                           !.added = @ \ {id}]>>
        /\ segRet' = LifeSegCall("RemoveBlock", id)
        /\ UNCHANGED <<nodes, cb, colRet, pkData, indexMeta, index, idxPc, idxRet,
                       subject, events>>

\* sf.RLock(); blocks := sf.blocks; sf.RUnlock()
DestroySnapshot ==
    /\ threads[1].pc = "idle"
    /\ threads' = <<DestroyThread("iterating", BlocksAlias, {}, {})>>
    /\ events' = Append(events, Event("snapshot", DOMAIN sf.blocks, sf.ref))
    /\ segRet' = LifeSegCall("Destroy", 0)
    /\ UNCHANGED <<nodes, cb, colRet, sf, pkData, indexMeta, index, idxPc, idxRet,
                   subject>>

\* One iteration of `for _, block := range blocks`: block.Destroy().
DestroyIterate ==
    \E id \in RangeNext(threads[1], BlocksOf(threads[1], sf)) :
        /\ threads[1].pc = "iterating"
        /\ Len(events) <= MaxEvents
        /\ threads' = <<[threads[1] EXCEPT !.visited = @ \cup {id}]>>
        /\ events' = Append(events, Event("block.Destroy", id, sf.ref))
        /\ UNCHANGED <<nodes, cb, colRet, sf, segRet, pkData, indexMeta, index, idxPc,
                       idxRet, subject>>

\* The range ends; sf.seg.Unmount(); sf.seg.Destroy().
DestroyRaw ==
    /\ threads[1].pc = "iterating"
    /\ RangeCanEnd(threads[1], BlocksOf(threads[1], sf))
    /\ threads' = <<[threads[1] EXCEPT !.pc = "done"]>>
    /\ sf' = [sf EXCEPT !.mounted = FALSE]
    /\ events' = events \o <<Event("seg.Unmount", 0, sf.ref), Event("seg.Destroy", 0, sf.ref)>>
    /\ UNCHANGED <<nodes, cb, colRet, segRet, pkData, indexMeta, index, idxPc, idxRet,
                   subject>>

NextDestroy ==
    \/ DestroyOpenBlock
    \/ DestroyRemoveBlock
    \/ DestroySnapshot
    \/ DestroyIterate
    \/ DestroyRaw

SpecDestroy == InitDestroy /\ [][NextDestroy]_vars

(***************************************************************************)
(* SpecWrite: two threads call WriteTS on one column store, made by        *)
(* newColumnBlock or by openColumnBlock, and any thread calls ReadTS.  A   *)
(* WriteTS is two steps: the assignment of cb.ts, made before the lock is  *)
(* taken, and the append to cb.data.file, made under cb.mutex.Lock().      *)
(* threads[t] is thread t's position in its call and the call's argument.  *)
(***************************************************************************)
WriterThread(pc, ts) == [pc |-> pc, ts |-> ts]

\* WriteTS, line 74: cb.ts = ts.
WriteTSStore(c, ts) == [c EXCEPT !.ts = ts]

\* WriteTS, lines 75-81: the guard, and under the exclusive lock the new
\* file and the append.
WriteTSAppend(c, ts) ==
    IF ~c.fileNil
    THEN LET name == VersionFileName(c.col, c.block, ts)
         IN  ColResult([c EXCEPT !.file = Append(@, name)],
                       Nil, <<>>, NilFile, <<>>, {name})
    ELSE ColResult(c, Nil, <<>>, NilFile, <<>>, {})

\* The calls of WriteTS that have assigned cb.ts and not yet appended.
Pending == {t \in DOMAIN threads : threads[t].pc = "stored"}

InitWrite ==
    /\ subject = "column"
    /\ \/ /\ cb = newColumnBlock(1, SchemaIndexCnt[PrimaryKey], PrimaryKey)
          /\ nodes = {BaseFileName(PrimaryKey, 1)}
          /\ colRet = [NoColRet EXCEPT !.op = "newColumnBlock"]
       \/ /\ cb = openColumnBlock(1, SchemaIndexCnt[PrimaryKey], PrimaryKey)
          /\ nodes = {}
          /\ colRet = [NoColRet EXCEPT !.op = "openColumnBlock"]
    /\ threads = <<WriterThread("idle", 0), WriterThread("idle", 0)>>
    /\ events = <<>>
    /\ SegIdle
    /\ IdxIdle

WriteStore ==
    \E t \in DOMAIN threads, ts \in TS :
        /\ threads[t].pc = "idle"
        /\ Len(cb.file) + Cardinality(Pending) < MaxFiles
        /\ cb' = WriteTSStore(cb, ts)
        /\ threads' = [threads EXCEPT ![t] = WriterThread("stored", ts)]
        /\ UNCHANGED <<nodes, colRet, sf, segRet, pkData, indexMeta, index, idxPc, idxRet,
                       subject, events>>

WriteAppend ==
    \E t \in DOMAIN threads :
        /\ threads[t].pc = "stored"
        /\ LET r == WriteTSAppend(cb, threads[t].ts)
           IN  /\ cb' = r.cb
               /\ nodes' = nodes \cup r.created
               /\ colRet' = ColCall("WriteTS", -1, threads[t].ts, <<>>, 0, r)
        /\ threads' = [threads EXCEPT ![t] = WriterThread("idle", 0)]
        /\ UNCHANGED <<sf, segRet, pkData, indexMeta, index, idxPc, idxRet,
                       subject, events>>

WriteReadTS ==
    /\ colRet' = [NoColRet EXCEPT !.op = "ReadTS", !.val = ReadTS(cb)]
    /\ UNCHANGED <<nodes, cb, sf, segRet, pkData, indexMeta, index, idxPc, idxRet,
                   subject, threads, events>>

NextWrite ==
    \/ WriteStore
    \/ WriteAppend
    \/ WriteReadTS

SpecWrite == InitWrite /\ [][NextWrite]_vars

(***************************************************************************)
(* SpecNames: a segment opened by openSegment over a raw store that holds  *)
(* files the column stores of an earlier run named, for block ids over the *)
(* whole range of uint64, and replayed.  events lists, for each file, the  *)
(* column, block id and timestamp (0 for a base file) it was named from.   *)
(***************************************************************************)
\* Block ids: the small ones, 2^31 - 1, 2^32 and 2^64 - 1.
WideIds ==
    {Uint64(b) : b \in BlockIds}
        \cup {<<0, 0, 32767, 65535>>, <<0, 1, 0, 0>>, <<65535, 65535, 65535, 65535>>}

NamedFile(col, id, ts) ==
    [col |-> col, id |-> id, ts |-> ts,
     name |-> IF ts = 0 THEN BaseFileName64(col, id) ELSE VersionFileName64(col, id, ts)]

NamedFiles == {NamedFile(col, id, ts) : col \in Cols, id \in WideIds, ts \in {0} \cup TS}

InitNames ==
    /\ \E n \in 1..MaxNames :
         \E q \in [1..n -> NamedFiles] :
            /\ \A i, j \in 1..n : q[i] = q[j] => i = j
            /\ nodes = {q[i].name : i \in 1..n}
            /\ events = [i \in 1..n |-> Event("NewBlockFile", q[i], 1)]
    /\ subject = "segment"
    /\ threads = <<>>
    /\ sf = openSegment
    /\ segRet = LifeSegCall("openSegment", 0)
    /\ ColIdle
    /\ IdxIdle

NextNames ==
    \/ SegReplay
    \/ SegReopen

SpecNames == InitNames /\ [][NextNames]_vars

(***************************************************************************)
(* SpecRelease: SpecSeg, ended by the destruction of one column store of   *)
(* the segment.  events holds the ReleaseFile calls of that Destroy.       *)
(***************************************************************************)
\* No column store of the segment has been destroyed.
InUse == segRet.op # "columnBlock.Destroy"

\* segment.Segment.ReleaseFile, for each handle given: the raw store drops
\* the file.
ReleaseFiles(store, released) ==
    store \ {released[i].arg : i \in 1..Len(released)}

SegColumnDestroy ==
    \E id \in DOMAIN sf.blocks, col \in Cols :
        /\ InUse
        /\ sf.replayed
        /\ LET r == ColumnBlockDestroy(sf.blocks[id].columns[col + 1])
           IN  /\ events' = r.events
               /\ nodes' = ReleaseFiles(nodes, r.events)
        /\ segRet' = SegCall("columnBlock.Destroy", id, col, 0, Nil, [err |-> Nil])
        /\ UNCHANGED <<cb, colRet, sf, pkData, indexMeta, index, idxPc, idxRet,
                       subject, threads>>

NextRelease ==
    \/ InUse /\ SegOpenBlock
    \/ InUse /\ SegWriteTS
    \/ InUse /\ SegReopen
    \/ InUse /\ SegReplay
    \/ SegColumnDestroy

SpecRelease == InitSeg /\ [][NextRelease]_vars

(***************************************************************************)
(* Properties.                                                             *)
(***************************************************************************)
\* The key lies in the closed range of the values the index was built from.
InBuiltRange(key) == SetMin(pkData) <= key /\ key <= SetMax(pkData)

\* The keys whose bit is set in the persisted bloom-filter file.
FilterKeys == {k \in Keys : cb.indexes[SfIdx + 1].content[k + 1] = 1}

InTrace(call, trace) == \E i \in 1..Len(trace) : trace[i] = call

\* C1 as stated: for every key k of the values V the index was built from,
\* Dedup(k) on the index loaded by ReadFrom returns PossibleDuplicate.
C1_DedupAlwaysPossibleDuplicate ==
    (idxRet.op = "Dedup" /\ idxRet.key \in pkData)
        => idxRet.err = ErrPossibleDuplicate

\* C1 amended: for every key k of V, Dedup(k) never returns success: it
\* returns PossibleDuplicate, or, when the bloom-filter query itself fails,
\* that failure translated into this layer's error.
C1_NoFalseNegative ==
    (idxRet.op = "Dedup" /\ idxRet.key \in pkData)
        => /\ idxRet.err # Nil
           /\ ~idxRet.bfFail => idxRet.err = ErrPossibleDuplicate
           /\ idxRet.bfFail => idxRet.err = ErrIndexRead

C1_Witness ==
    /\ idxRet.op = "Dedup"
    /\ idxRet.key \in pkData
    /\ Cardinality(pkData) >= 2
    /\ idxRet.err = ErrPossibleDuplicate

\* C2: for every key below min(V) or above max(V), Dedup returns success
\* and makes no call on the bloom-filter reader.
C2_FastReject ==
    (idxRet.op = "Dedup" /\ ~InBuiltRange(idxRet.key))
        => /\ idxRet.err = Nil
           /\ ~InTrace("bf.MayContainsKey", idxRet.trace)
           /\ idxRet.trace = <<"zm.Contains">>

C2_Witness ==
    /\ idxRet.op = "Dedup"
    /\ idxRet.key > SetMax(pkData)
    /\ idxRet.key \in FilterKeys
    /\ idxRet.bfFail
    /\ idxRet.err = Nil

\* C3: for a key inside [min, max] the result of Dedup is decided by the
\* bloom filter's answer alone: a filter error gives that error translated
\* (neither success nor PossibleDuplicate), "may be present" gives
\* PossibleDuplicate, "absent" gives success.
C3_InRangeResult ==
    (idxRet.op = "Dedup" /\ InBuiltRange(idxRet.key))
        => /\ idxRet.bfFail
                => /\ idxRet.err = ErrIndexRead
                   /\ idxRet.err \notin {Nil, ErrPossibleDuplicate, ErrFilter}
           /\ (~idxRet.bfFail /\ idxRet.key \in FilterKeys)
                => idxRet.err = ErrPossibleDuplicate
           /\ (~idxRet.bfFail /\ idxRet.key \notin FilterKeys)
                => idxRet.err = Nil
           /\ idxRet.err \in {Nil, ErrPossibleDuplicate, ErrIndexRead}

C3_Witness ==
    /\ idxRet.op = "Dedup"
    /\ InBuiltRange(idxRet.key)
    /\ idxRet.key \notin pkData
    /\ idxRet.bfFail
    /\ idxRet.err = ErrIndexRead

\* The positions of a key vector the zone map selects, and those of them
\* the bloom filter keeps.
ZoneSelected(keys) == {i \in 1..Len(keys) : InBuiltRange(keys[i])}
FilterSelected(keys) == {i \in ZoneSelected(keys) : keys[i] \in FilterKeys}

\* C4 as stated: BatchDedup is the two-stage protocol: no key selected by
\* the zone map gives success, no matched key and no bloom-filter query;
\* otherwise the bloom filter narrows the zone-map selection, an empty
\* narrowing gives success, a non-empty one PossibleDuplicate with the
\* narrowed mask, which is non-empty and within the zone-map selection.
C4_BatchDedupTwoOutcomes ==
    idxRet.op = "BatchDedup"
        => /\ ZoneSelected(idxRet.keys) = {}
                => /\ idxRet.err = Nil
                   /\ idxRet.keyselects = {}
                   /\ ~InTrace("bf.MayContainsAnyKeys", idxRet.trace)
           /\ ZoneSelected(idxRet.keys) # {}
                => /\ InTrace("bf.MayContainsAnyKeys", idxRet.trace)
                   /\ idxRet.keyselects \subseteq ZoneSelected(idxRet.keys)
                   /\ idxRet.keyselects = {} => idxRet.err = Nil
                   /\ idxRet.keyselects # {} => idxRet.err = ErrPossibleDuplicate

\* C4 amended: as stated when the bloom filter answers; when the
\* bloom-filter query itself fails, BatchDedup returns that failure
\* translated into this layer's error, neither success nor
\* PossibleDuplicate.
C4_BatchDedupProtocol ==
    idxRet.op = "BatchDedup"
        => /\ ZoneSelected(idxRet.keys) = {}
                => /\ idxRet.err = Nil
                   /\ idxRet.keyselects = {}
                   /\ ~InTrace("bf.MayContainsAnyKeys", idxRet.trace)
           /\ ZoneSelected(idxRet.keys) # {}
                => InTrace("bf.MayContainsAnyKeys", idxRet.trace)
           /\ (ZoneSelected(idxRet.keys) # {} /\ ~idxRet.bfFail)
                => /\ idxRet.keyselects = FilterSelected(idxRet.keys)
                   /\ idxRet.keyselects \subseteq ZoneSelected(idxRet.keys)
                   /\ idxRet.keyselects = {} => idxRet.err = Nil
                   /\ idxRet.keyselects # {} => idxRet.err = ErrPossibleDuplicate
           /\ (ZoneSelected(idxRet.keys) # {} /\ idxRet.bfFail)
                => idxRet.err = ErrIndexRead

C4_Witness ==
    /\ idxRet.op = "BatchDedup"
    /\ Len(idxRet.keys) = 2
    /\ idxRet.keys[1] \in FilterKeys
    /\ ~InBuiltRange(idxRet.keys[1])
    /\ idxRet.keys[2] \in pkData
    /\ idxRet.keyselects = {2}
    /\ idxRet.err = ErrPossibleDuplicate

\* The reference count of the file a handle names, in column store c.
RefOf(c, vfile) ==
    CASE vfile.kind = "index" -> c.indexes[vfile.slot + 1].ref
      [] vfile.kind = "updates" -> c.updates.ref
      [] vfile.kind = "data" -> c.data.ref

\* The file handles of column store c.
VFilesOf(c) == {IndexFileOf(i - 1) : i \in 1..Len(c.indexes)} \cup {UpdatesFile, DataFile}

\* C5: every WriteTS(T) makes the data-file sequence exactly one longer,
\* leaves the entries it held unchanged and in place, and ReadTS then
\* returns T.
C5_VersionAppendOnly ==
    [][/\ colRet'.op = "WriteTS"
            => /\ Len(cb'.file) = Len(cb.file) + 1
               /\ SubSeq(cb'.file, 1, Len(cb.file)) = cb.file
               /\ cb'.file[Len(cb'.file)] = VersionFileName(cb.col, cb.block, colRet'.ts)
               /\ ReadTS(cb') = colRet'.ts
       /\ (colRet.op = "WriteTS" /\ colRet'.op = "ReadTS")
            => colRet'.val = colRet.ts]_vars

C5_Witness ==
    /\ colRet.op = "WriteTS"
    /\ colRet.ts = 1
    /\ cb.ts = 1
    /\ cb.file = <<BaseFileName(cb.col, cb.block),
                   VersionFileName(cb.col, cb.block, 2),
                   VersionFileName(cb.col, cb.block, 1)>>

\* C6: WriteTS on a column store whose data-file sequence holds no base
\* file (the empty sequence of a store opened for replay) appends nothing
\* and creates no file.
C6_NoBaseNoVersion ==
    [][(colRet'.op = "WriteTS" /\ cb.file = <<>>)
            => (cb'.file = <<>> /\ nodes' = nodes)]_vars

\* C7: WriteIndex, ReadIndex and OpenIndexFile with a slot at or above the
\* declared slot count return InvalidParameter, read and write no file,
\* return no handle and leave the column store, its reference counts
\* included, unchanged.
C7_OutOfRangeSlot ==
    [][(/\ colRet'.op \in {"WriteIndex", "ReadIndex", "OpenIndexFile"}
        /\ colRet'.idx >= Len(cb.indexes))
            => /\ colRet'.err = ErrInvalidParam
               /\ colRet'.io = <<>>
               /\ colRet'.out = <<>>
               /\ colRet'.vfile = NilFile
               /\ cb' = cb
               /\ nodes' = nodes]_vars

C7_Witness ==
    /\ colRet.op = "WriteIndex"
    /\ colRet.idx = Len(cb.indexes)
    /\ colRet.err = ErrInvalidParam
    /\ cb.indexes[1].content = <<1>>
    /\ cb.indexes[1].ref = 2

\* C8: OpenIndexFile(slot), OpenDataFile and OpenUpdateFile each return the
\* handle of the corresponding file (index slot, data, update log) and add
\* one to the reference count of exactly the file returned.
C8_OpenReturnsReferencedFile ==
    [][(colRet'.op \in {"OpenIndexFile", "OpenDataFile", "OpenUpdateFile"}
        /\ colRet'.err = Nil)
            => /\ colRet'.op = "OpenIndexFile" => colRet'.vfile = IndexFileOf(colRet'.idx)
               /\ colRet'.op = "OpenDataFile" => colRet'.vfile = DataFile
               /\ colRet'.op = "OpenUpdateFile" => colRet'.vfile = UpdatesFile
               /\ \A f \in VFilesOf(cb) :
                     RefOf(cb', f) = RefOf(cb, f) + (IF f = colRet'.vfile THEN 1 ELSE 0)]_vars

\* The files the raw store holds for column col of block id, by the names
\* the column store gives them.
PersistedFiles(col, id) ==
    {n \in nodes : \/ n = BaseFileName(col, id)
                   \/ \E ts \in TS : n = VersionFileName(col, id, ts)}

\* The timestamps of the persisted versions of column col of block id.
PersistedTS(col, id) == {ts \in TS : VersionFileName(col, id, ts) \in nodes}

PersistedBlocks == {id \in BlockIds : \E col \in Cols : PersistedFiles(col, id) # {}}

SeqRange(q) == {q[i] : i \in 1..Len(q)}

C10_ReplayKeepsVersionOrder ==
    (segRet.op = "Replay" /\ segRet.err = Nil)
        => \A id \in DOMAIN sf.blocks : \A col \in Cols :
              LET c == sf.blocks[id].columns[col + 1]
              IN  c.file # <<>>
                    => /\ c.file[1] = BaseFileName(col, id)
                       /\ PersistedTS(col, id) # {}
                            => c.file[Len(c.file)] =
                                 VersionFileName(col, id, SetMax(PersistedTS(col, id)))

\* C11: Replay ignores every name it cannot parse, one with fewer than two
\* fields or with a field that is no number: it still returns success and
\* every well-formed name of the listing is loaded into its column.
C11_ReplaySkipsUnparseable ==
    (segRet.op = "Replay" /\ segRet.segErr = Nil)
        => /\ segRet.err = Nil
           /\ \A id \in BlockIds : \A col \in Cols :
                PersistedFiles(col, id) # {}
                    => /\ id \in DOMAIN sf.blocks
                       /\ PersistedFiles(col, id)
                            \subseteq SeqRange(sf.blocks[id].columns[col + 1].file)

\* The number of calls of OnZeroCB so far.
Fired == Cardinality({i \in 1..Len(events) : events[i].ev = "OnZeroCB"})

AllReturned == \A t \in 1..Len(threads) : threads[t] = "done"

\* C12: on an object constructed with count 1, once the threads' Ref / Unref
\* pairs and the one further Unref have all returned, OnZeroCB has been
\* called exactly once, in every interleaving; it is never called twice,
\* and never before the further Unref.
C12_SingleFire ==
    subject # "none"
        => /\ Fired <= 1
           /\ AllReturned => Fired = 1
           /\ Fired = 1 => threads[LastThread] = "done"
           /\ SubjectRef >= 0

C12_Witness ==
    /\ subject = "segment"
    /\ Len(threads) = MaxPairs + 1
    /\ AllReturned
    /\ Fired = 1
    /\ sf.ref = 0
    /\ ~sf.mounted

\* The positions in events of the runs of a teardown.
Teardowns == {i \in 1..Len(events) : events[i].ev = "teardown"}

\* C13: over every sequence of Ref, Unref, Close and Destroy calls on a
\* segment store or a column store the reference count is never negative,
\* the teardown runs at most once, and it runs only when the count has just
\* gone from 1 to 0.
C13_TeardownOnceAtZero ==
    subject # "none"
        => /\ SubjectRef >= 0
           /\ Cardinality(Teardowns) <= 1
           /\ \A i \in Teardowns : events[i].ref = 0

\* The positions in events at which a block store for id was made since id
\* was last removed from the map.
Creations(id) ==
    LET removals == {i \in 1..Len(events) : events[i].ev = "remove" /\ events[i].arg = id}
        last == IF removals = {} THEN 0 ELSE SetMax(removals)
    IN  {i \in (last + 1)..Len(events) : events[i].ev = "create" /\ events[i].arg = id}

\* C14: OpenBlock(id) returns the block store mapped to id and makes one
\* only when id is not mapped: a call on a mapped id leaves the entry as it
\* is, and as long as id is not removed its block store is made exactly
\* once, by OpenBlock or by Replay, however the calls follow each other.
C14_OpenBlockCreatesOnce ==
    [][subject = "segment"
        => /\ segRet'.op = "OpenBlock"
                => /\ segRet'.id \in DOMAIN sf'.blocks
                   /\ segRet'.id \in DOMAIN sf.blocks
                        => sf'.blocks[segRet'.id] = sf.blocks[segRet'.id]
                   /\ \A id \in (DOMAIN sf.blocks) \ {segRet'.id} :
                        id \in DOMAIN sf'.blocks /\ sf'.blocks[id] = sf.blocks[id]
           /\ \A id \in BlockIds :
                /\ Cardinality(Creations(id)') <= 1
                /\ id \in DOMAIN sf'.blocks <=> Creations(id)' # {}]_vars

\* OpenBlock(1) on a reopened segment whose Replay made block 1: the
\* replayed block store is returned, none is made.
C14_Witness ==
    /\ subject = "segment"
    /\ segRet.op = "OpenBlock"
    /\ segRet.id = 1
    /\ ~sf.mounted
    /\ sf.replayed
    /\ Len(events) = 1
    /\ Creations(1) = {1}
    /\ 1 \in DOMAIN sf.blocks
    /\ sf.blocks[1].columns[1].file = <<BaseFileName(0, 1)>>
    /\ sf.blocks[1] # newBlock(1, ColCnt, SchemaIndexCnt)

\* C15: RemoveBlock(id) removes the map entry of id and nothing else: every
\* other entry stays as it is, no file leaves the raw store, no teardown
\* runs, the segment's other fields and the column stores are unchanged;
\* when id is not mapped nothing changes at all.
C15_RemoveBlockOnlyUnmaps ==
    [][(subject = "segment" /\ segRet'.op = "RemoveBlock")
        => LET id == segRet'.id
           IN  /\ DOMAIN sf'.blocks = (DOMAIN sf.blocks) \ {id}
               /\ \A b \in DOMAIN sf'.blocks : sf'.blocks[b] = sf.blocks[b]
               /\ [sf' EXCEPT !.blocks = sf.blocks] = sf
               /\ nodes' = nodes
               /\ Teardowns' = Teardowns
               /\ cb' = cb
               /\ id \notin DOMAIN sf.blocks => (sf' = sf /\ events' = events)]_vars

\* RemoveBlock(1) on a segment holding the blocks 1 and 2: block 2 stays
\* mapped and the files of both blocks stay in the raw store.
C15_Witness ==
    /\ subject = "segment"
    /\ segRet.op = "RemoveBlock"
    /\ segRet.id = 1
    /\ DOMAIN sf.blocks = {2}
    /\ sf.blocks[2] = newBlock(2, ColCnt, SchemaIndexCnt)
    /\ nodes = NewBlockFiles(1, ColCnt) \cup NewBlockFiles(2, ColCnt)
    /\ events[Len(events)].ev = "remove"
    /\ Teardowns = {}

\* C16: a Destroy of the segment store, called directly or by the Unref that
\* brings the count to zero, destroys every block of the map, each once,
\* then unmounts the raw segment, then destroys it, in this order.
C16_DestroyBlocksThenRaw ==
    [][(/\ subject = "segment"
        /\ \/ segRet'.op = "Destroy"
           \/ segRet'.op = "Unref" /\ sf.ref = 1)
        => /\ Len(events') = Len(events) + 1
           /\ LET e == events'[Len(events')]
                  n == Cardinality(DOMAIN sf.blocks)
              IN  /\ e.ev = "teardown"
                  /\ Len(e.arg) = n + 2
                  /\ \A i \in 1..n : e.arg[i].ev = "block.Destroy"
                  /\ {e.arg[i].arg : i \in 1..n} = DOMAIN sf.blocks
                  /\ e.arg[n + 1].ev = "seg.Unmount"
                  /\ e.arg[n + 2].ev = "seg.Destroy"
           /\ ~sf'.mounted]_vars

\* The Unref that brings the count of a segment holding the blocks 1 and 2
\* to zero has run the teardown: two blocks destroyed, then the raw segment.
C16_Witness ==
    /\ subject = "segment"
    /\ segRet.op = "Unref"
    /\ sf.ref = 0
    /\ DOMAIN sf.blocks = {1, 2}
    /\ Len(events) = 3
    /\ events[3].ev = "teardown"
    /\ events[3].ref = 0
    /\ Len(events[3].arg) = 4
    /\ events[3].arg[1] = Event("block.Destroy", 2, 0)
    /\ events[3].arg[4].ev = "seg.Destroy"

\* The metadata the index builder writes for the primary-key column.
BuilderMetas ==
    <<IndexMetaOf(BlockZoneMapIndex, PrimaryKey, ZmIdx),
      IndexMetaOf(StaticFilterIndex, PrimaryKey, SfIdx)>>

\* C17: BuildAndFlushBlockIndex runs its calls in order and stops at the
\* first that fails, returning its error: the calls before it have
\* returned, none after it is made, and no index metadata is persisted.
\* The metadata is written by the last call, after both index files have
\* been written.
C17_MetadataLast ==
    idxRet.op = "BuildAndFlushBlockIndex"
        => /\ idxRet.failAt = 0
                => /\ idxRet.err = Nil
                   /\ idxRet.done = [n \in 1..BuildCalls |-> n]
                   /\ indexMeta = Marshal(BuilderMetas)
                   /\ cb.indexes[ZmIdx + 1].content # <<>>
                   /\ cb.indexes[SfIdx + 1].content # <<>>
           /\ idxRet.failAt > 0
                => /\ idxRet.err = ErrIO
                   /\ idxRet.done = [n \in 1..(idxRet.failAt - 1) |-> n]
                   /\ indexMeta = <<>>
           /\ idxRet.err = Nil <=> indexMeta # <<>>

\* The bloom filter's Finalize fails: the zone-map file is written, the
\* bloom-filter file is not, no metadata is persisted.
C17_Witness ==
    /\ idxRet.op = "BuildAndFlushBlockIndex"
    /\ idxRet.failAt = 9
    /\ idxRet.err = ErrIO
    /\ idxRet.done = <<1, 2, 3, 4, 5, 6, 7, 8>>
    /\ cb.indexes[ZmIdx + 1].content = ZoneMapOf(pkData)
    /\ cb.indexes[SfIdx + 1].content = <<>>
    /\ indexMeta = <<>>

\* C18: every call of IsKeyDeleted, GetActiveRow, Delete, BatchUpsert or
\* WriteTo on the immutable index fails loudly: it returns no normal
\* result, and the index's two readers are what they were.
C18_MutationFailsLoudly ==
    [][idxRet'.op \in MutationOps
        => /\ idxRet'.err = PanicNotSupported
           /\ index' = index
           /\ cb' = cb
           /\ indexMeta' = indexMeta]_vars

\* Delete on a loaded index.
C18_Witness ==
    /\ idxRet.op = "Delete"
    /\ idxRet.err = PanicNotSupported
    /\ index.zmReader = IndexFileOf(ZmIdx)
    /\ index.bfReader = IndexFileOf(SfIdx)

ErrUnsupportedOperation == "UnsupportedOperation"

\* C19: a mutation called on the immutable index returns the typed error
\* UnsupportedOperation to its caller; the process goes on, and the index
\* can be used as before.
C19_UnsupportedIsTypedError ==
    [][idxRet'.op \in MutationOps
        => /\ idxRet'.err = ErrUnsupportedOperation
           /\ idxPc' = idxPc]_vars

\* ReadFrom's call with number failAt having failed, descriptor i of metas
\* is where the loop ends: its slot cannot be opened, its file cannot be
\* read, or its kind is unknown.
EndsAt(metas, i, failAt) ==
    \/ failAt = 2 * i + 1
    \/ failAt = 2 * i + 2
    \/ metas[i].InternalIdx >= SchemaIndexCnt[PrimaryKey]
    \/ metas[i].IdxType \notin {BlockZoneMapIndex, StaticFilterIndex}

\* The reader of the given kind after the descriptors 1..n: that of the
\* last descriptor of the kind, none when there is no such descriptor.
ReaderAfter(metas, n, kind) ==
    LET of == {i \in 1..n : metas[i].IdxType = kind}
    IN  IF of = {} THEN NilFile ELSE IndexFileOf(metas[SetMax(of)].InternalIdx)

\* C20: ReadFrom takes the persisted descriptors in order; each opens its
\* slot of the primary-key column and sets the zone-map reader or the
\* bloom-filter reader, by its kind.  At the first failure, of loading the
\* metadata, opening the column, opening a slot or reading a slot file, the
\* error is returned; at a descriptor of an unknown kind ReadFrom panics;
\* either way no later descriptor is processed.  A ReadFrom that succeeds
\* on the builder's metadata has set both readers.
C20_ReadFromInOrder ==
    idxRet.op = "ReadFrom"
        => LET metas == Unmarshal(indexMeta)
               failAt == idxRet.failAt
               ends == {i \in 1..Len(metas) : EndsAt(metas, i, failAt)}
               end == IF ends = {} THEN Len(metas) + 1 ELSE SetMin(ends)
           IN  IF failAt \in {1, 2}
               THEN idxRet.err = ErrIO /\ index = NewImmutableIndex
               ELSE /\ index.zmReader = ReaderAfter(metas, end - 1, BlockZoneMapIndex)
                    /\ index.bfReader = ReaderAfter(metas, end - 1, StaticFilterIndex)
                    /\ idxRet.err = Nil <=> ends = {}
                    /\ (/\ ends # {}
                        /\ failAt # 2 * end + 1
                        /\ metas[end].InternalIdx < SchemaIndexCnt[PrimaryKey]
                        /\ metas[end].IdxType \notin {BlockZoneMapIndex, StaticFilterIndex})
                           => idxRet.err = PanicUnsupportedIndex
                    /\ (idxRet.err = Nil /\ metas = BuilderMetas)
                           => /\ index.zmReader = IndexFileOf(ZmIdx)
                              /\ index.bfReader = IndexFileOf(SfIdx)

\* Metadata holding a zone-map descriptor and then one of an unknown kind:
\* the zone-map reader is set, then ReadFrom panics.
C20_Witness ==
    /\ idxRet.op = "ReadFrom"
    /\ idxRet.failAt = 0
    /\ Len(Unmarshal(indexMeta)) = 2
    /\ Unmarshal(indexMeta)[2].IdxType \notin {BlockZoneMapIndex, StaticFilterIndex}
    /\ idxRet.err = PanicUnsupportedIndex
    /\ index.zmReader = IndexFileOf(ZmIdx)
    /\ index.bfReader = NilFile

\* The block ids of the block.Destroy calls in the log, and the block map's
\* keys when Destroy read sf.blocks under the shared lock.
DestroyedIds == {events[i].arg : i \in {j \in 1..Len(events) : events[j].ev = "block.Destroy"}}
SnapshotIds == UNION {events[i].arg : i \in {j \in 1..Len(events) : events[j].ev = "snapshot"}}

\* C21: Destroy holds no segment lock while it destroys the blocks, so an
\* OpenBlock or RemoveBlock running at that time is not blocked, and the
\* blocks Destroy has destroyed when it returns are exactly those mapped
\* when it read the block map under the shared lock, each destroyed once.
C21_DestroyIteratesSnapshot ==
    /\ threads[1].pc = "iterating"
         => (ENABLED DestroyOpenBlock) /\ (ENABLED DestroyRemoveBlock)
    /\ threads[1].pc = "done"
         => /\ DestroyedIds = SnapshotIds
            /\ Cardinality({j \in 1..Len(events) : events[j].ev = "block.Destroy"})
                 = Cardinality(SnapshotIds)

\* C22: the column's timestamp and data-file sequence are written under
\* the column's exclusive lock, so that when the calls of WriteTS two
\* threads made at the same time have returned, ReadTS is the timestamp of
\* the file appended last.
C22_ReadTSIsLastAppended ==
    (Pending = {} /\ colRet.op = "ReadTS" /\ Len(cb.file) > 1)
        => cb.file[Len(cb.file)] = VersionFileName(cb.col, cb.block, colRet.val)

\* The files of the raw store named from column col of block id.
NamedFrom(col, id) ==
    {events[i].arg : i \in {j \in 1..Len(events) :
                              events[j].arg.col = col /\ events[j].arg.id = id}}

\* C23: every name a column store generates, for any column ordinal, any
\* 64-bit block id and any timestamp, is parsed by Replay without error
\* back to that column, block and timestamp: the file is put in that
\* column of that block, whose timestamp becomes the largest of its files'.
C23_NameRoundTrip ==
    (segRet.op = "Replay" /\ segRet.segErr = Nil)
        => /\ segRet.err = Nil
           /\ \A i \in 1..Len(events) :
                LET f == events[i].arg
                IN  \E b \in DOMAIN sf.blocks :
                       /\ Uint64(b) = f.id
                       /\ f.name \in SeqRange(sf.blocks[b].columns[f.col + 1].file)
                       /\ sf.blocks[b].columns[f.col + 1].ts
                            = SetMax({g.ts : g \in NamedFrom(f.col, f.id)})

\* The column stores of the segment other than column col of block id.
OtherColumns(id, col) ==
    {sf.blocks[b].columns[k + 1] : b \in DOMAIN sf.blocks, k \in Cols} \
        {sf.blocks[id].columns[col + 1]}

\* C24: Destroy of a column store asks the raw store to release the
\* handles of the column's data-file sequence, base and versions, one
\* request per entry of the sequence, and no handle that is in the
\* data-file sequence of another column store.
C24_DestroyReleasesOwnFiles ==
    segRet.op = "columnBlock.Destroy"
        => LET c == sf.blocks[segRet.id].columns[segRet.col + 1]
           IN  /\ Len(events) = Len(c.file)
               /\ \A i \in 1..Len(events) :
                    /\ events[i].ev = "ReleaseFile"
                    /\ events[i].arg = c.file[i]
                    /\ \A o \in OtherColumns(segRet.id, segRet.col) :
                         events[i].arg \notin SeqRange(o.file)

C24_Witness ==
    /\ segRet.op = "columnBlock.Destroy"
    /\ Len(sf.blocks[segRet.id].columns[segRet.col + 1].file) = MaxFiles
    /\ Len(events) = MaxFiles
    /\ \E o \in OtherColumns(segRet.id, segRet.col) : Len(o.file) > 1

\* The position of call n in the calls a job has made, 0 when not made.
CallPos(done, n) ==
    IF \E i \in 1..Len(done) : done[i] = n
    THEN CHOOSE i \in 1..Len(done) : done[i] = n
    ELSE 0

\* C25: after a successful BuildAndFlushBlockIndex the persisted metadata
\* decodes to exactly two descriptors, the zone map's (primary-key column,
\* slot 0) and then the bloom filter's (primary-key column, slot 1); the
\* zone map is fed and finalized before the bloom filter is fed; the
\* zone-map file holds the least and the greatest of the primary-key
\* values, and the bloom filter holds every one of those values.
C25_BuiltIndexLayout ==
    (idxRet.op = "BuildAndFlushBlockIndex" /\ idxRet.err = Nil)
        => LET metas == Unmarshal(indexMeta)
               zm == cb.indexes[0 + 1].content
           IN  /\ Len(metas) = 2
               /\ metas[1] = [IdxType |-> BlockZoneMapIndex, ColIdx |-> PrimaryKey,
                              InternalIdx |-> 0]
               /\ metas[2] = [IdxType |-> StaticFilterIndex, ColIdx |-> PrimaryKey,
                              InternalIdx |-> 1]
               /\ 0 < CallPos(idxRet.done, 4)
               /\ CallPos(idxRet.done, 4) < CallPos(idxRet.done, 5)
               /\ CallPos(idxRet.done, 5) < CallPos(idxRet.done, 8)
               /\ CallPos(idxRet.done, 8) < CallPos(idxRet.done, 9)
               /\ CallPos(idxRet.done, 9) < CallPos(idxRet.done, 11)
               /\ Len(zm) = 2
               /\ zm[1] \in pkData /\ \A v \in pkData : zm[1] <= v
               /\ zm[2] \in pkData /\ \A v \in pkData : v <= zm[2]
               /\ pkData \subseteq FilterKeys

C25_Witness ==
    /\ idxRet.op = "BuildAndFlushBlockIndex"
    /\ idxRet.err = Nil
    /\ pkData = {1, MaxKey}
    /\ cb.indexes[ZmIdx + 1].content = <<1, MaxKey>>
    /\ 0 \in FilterKeys
    /\ Len(Unmarshal(indexMeta)) = 2

\* The positions of a key vector that hold a key of the values the index
\* was built from.
BuiltPositions(keys) == {i \in 1..Len(keys) : keys[i] \in pkData}

\* C26 as stated: for every key batch holding at least one key of the
\* values V the index was built from, BatchDedup returns PossibleDuplicate
\* and a matched mask that includes the position of every batch key in V.
C26_BatchAlwaysPossibleDuplicate ==
    (idxRet.op = "BatchDedup" /\ BuiltPositions(idxRet.keys) # {})
        => /\ idxRet.err = ErrPossibleDuplicate
           /\ BuiltPositions(idxRet.keys) \subseteq idxRet.keyselects

\* C26 amended: for such a batch BatchDedup never returns success: when
\* the bloom filter answers it returns PossibleDuplicate and a matched mask
\* that includes the position of every batch key in V; when the
\* bloom-filter query itself fails it returns that failure translated into
\* this layer's error.
C26_BatchNoFalseNegative ==
    (idxRet.op = "BatchDedup" /\ BuiltPositions(idxRet.keys) # {})
        => /\ idxRet.err # Nil
           /\ ~idxRet.bfFail
                => /\ idxRet.err = ErrPossibleDuplicate
                   /\ BuiltPositions(idxRet.keys) \subseteq idxRet.keyselects
           /\ idxRet.bfFail => idxRet.err = ErrIndexRead

C26_Witness ==
    /\ idxRet.op = "BatchDedup"
    /\ Len(idxRet.keys) = 2
    /\ idxRet.keys[1] # idxRet.keys[2]
    /\ BuiltPositions(idxRet.keys) = {1, 2}
    /\ idxRet.keyselects = {1, 2}
    /\ idxRet.err = ErrPossibleDuplicate

\* C27: Destroy of the immutable index destroys the zone-map reader first.
\* If that fails, its error is returned and the bloom-filter reader is not
\* destroyed; if it succeeds, the bloom-filter reader is destroyed next and
\* what that returns is the result.
C27_DestroyFirstError ==
    idxRet.op = "Destroy"
        => /\ idxRet.trace[1] = "zm.Destroy"
           /\ idxRet.zmErr # Nil
                => /\ idxRet.err = idxRet.zmErr
                   /\ ~InTrace("bf.Destroy", idxRet.trace)
           /\ idxRet.zmErr = Nil
                => /\ idxRet.trace = <<"zm.Destroy", "bf.Destroy">>
                   /\ idxRet.err = idxRet.bfErr

C27_Witness ==
    /\ idxRet.op = "Destroy"
    /\ idxRet.zmErr = ErrIO
    /\ idxRet.bfErr = ErrFilter
    /\ idxRet.err = ErrIO
    /\ idxRet.trace = <<"zm.Destroy">>
====
